---- MODULE Spec2Model ----
(***************************************************************************)
(* Tiered object storage client (sdk/src/machine/objectstore.rs): the      *)
(* range parser, the add / delete / get calls of ObjectStore, and the      *)
(* ledger and staging collaborators they talk to.                          *)
(*                                                                         *)
(* Strings are sequences of one-character strings, so that splitting and   *)
(* integer parsing are computed and not assumed.                           *)
(***************************************************************************)
EXTENDS Integers, Sequences, FiniteSets, TLC

VARIABLES
    rspec,      \* parse_range: the range argument (a string, as characters)
    rsize,      \* parse_range: the size argument
    overflow_checks,   \* TRUE when the build checks integer overflow
    rres        \* parse_range: the value returned, or NotCalled

rangeVars == <<rspec, rsize, overflow_checks, rres>>

(***************************************************************************)
(* Bounds of the model.                                                    *)
(***************************************************************************)
\* Longest range string enumerated character by character.
MaxSpecLen == 4
\* Largest object size handed to parse_range.
MaxSize == 5
\* Largest integer the range claims write out in decimal.
MaxNum == 12
\* Mutating calls (add, delete, transfer, deposit, withdraw) started in one
\* run.
MaxOps == 1
\* Most bytes in one chunk of a download stream.
DownloadChunk == 512
\* Keys on the ledger when it is listed, and entries asked for per page.
MaxKeys == 4
MaxLimit == 2
\* Blocks of a fee history, and the largest reward of a block.
MaxBlocks == 3
MaxReward == 3

(***************************************************************************)
(* Strings.                                                                *)
(***************************************************************************)
Digits == <<"0", "1", "2", "3", "4", "5", "6", "7", "8", "9">>

IsDigit(c) == \E i \in 1..10 : Digits[i] = c

DigitVal(c) == (CHOOSE i \in 1..10 : Digits[i] = c) - 1

\* Characters the enumerated range strings are made of: digits, the
\* separator, a sign and a letter.
SpecChars == {"0", "1", "2", "4", "-", "+", "x"}

RECURSIVE SeqsUpTo(_, _)
SeqsUpTo(S, n) ==
    IF n = 0 THEN {<<>>}
    ELSE LET shorter == SeqsUpTo(S, n - 1)
         IN  shorter \cup {Append(s, c) : s \in {t \in shorter : Len(t) = n - 1}, c \in S}

\* u64::MAX = 18446744073709551615, as decimal digits.
U64MaxDigits ==
    <<1, 8, 4, 4, 6, 7, 4, 4, 0, 7, 3, 7, 0, 9, 5, 5, 1, 6, 1, 5>>

\* Range strings longer than MaxSpecLen that are worth their own case.
LongSpecs ==
    { <<"1", "0", "-", "1", "1">>,
      <<"0", "-", "1", "-", "2">>,
      <<"-", "2", "0", "0", "0">>,
      <<"0", "0", "1", "-", "0", "3">>,
      \* 18446744073709551616 = u64::MAX + 1, then "-"
      <<"1", "8", "4", "4", "6", "7", "4", "4", "0", "7", "3", "7", "0", "9",
        "5", "5", "1", "6", "1", "6", "-">>,
      \* "0-" then u64::MAX + 1
      <<"0", "-", "1", "8", "4", "4", "6", "7", "4", "4", "0", "7", "3", "7",
        "0", "9", "5", "5", "1", "6", "1", "6">> }

RangeSpecs == SeqsUpTo(SpecChars, MaxSpecLen) \cup LongSpecs

(***************************************************************************)
(* str::split('-'): the substrings between separators; a string with n     *)
(* separators gives n + 1 items, the empty string gives one empty item.    *)
(***************************************************************************)
\* split that drops the empty items (as split over a filtered iterator).
split_skip_empty(s, sep) ==
    LET RECURSIVE Items(_)
        Items(t) ==
            IF \A i \in 1..Len(t) : t[i] # sep
            THEN <<t>>
            ELSE LET i == CHOOSE j \in 1..Len(t) :
                              /\ t[j] = sep
                              /\ \A k \in 1..(j - 1) : t[k] # sep
                 IN  <<SubSeq(t, 1, i - 1)>> \o Items(SubSeq(t, i + 1, Len(t)))
    IN  SelectSeq(Items(s), LAMBDA t : Len(t) > 0)

RECURSIVE split(_, _)
split(s, sep) ==
    IF \A i \in 1..Len(s) : s[i] # sep
    THEN <<s>>
    ELSE LET i == CHOOSE j \in 1..Len(s) :
                      /\ s[j] = sep
                      /\ \A k \in 1..(j - 1) : s[k] # sep
         IN  <<SubSeq(s, 1, i - 1)>> \o split(SubSeq(s, i + 1, Len(s)), sep)

(***************************************************************************)
(* str::parse::<u64>: an optional leading '+', then one or more decimal    *)
(* digits, with a value of at most u64::MAX.                               *)
(***************************************************************************)
RECURSIVE StripZeros(_)
StripZeros(ds) ==
    IF Len(ds) > 1 /\ ds[1] = 0 THEN StripZeros(Tail(ds)) ELSE ds

\* ds > u64::MAX, for a digit sequence without leading zeros.
ExceedsU64(ds) ==
    \/ Len(ds) > Len(U64MaxDigits)
    \/ /\ Len(ds) = Len(U64MaxDigits)
       /\ \E i \in 1..Len(ds) :
            /\ ds[i] > U64MaxDigits[i]
            /\ \A k \in 1..(i - 1) : ds[k] = U64MaxDigits[k]

RECURSIVE DecimalValue(_)
DecimalValue(ds) ==
    IF Len(ds) = 0 THEN 0
    ELSE 10 * DecimalValue(SubSeq(ds, 1, Len(ds) - 1)) + ds[Len(ds)]

ParseOk(v) == [ok |-> TRUE, val |-> v]
ParseErr(e) == [ok |-> FALSE, err |-> e]

\* parse_u64 that skips the characters that are no digits.
parse_u64_lenient(tok) ==
    LET ds == SelectSeq(tok, IsDigit)
    IN  ParseOk(DecimalValue([i \in 1..Len(ds) |-> DigitVal(ds[i])]))

parse_u64(tok) ==
    IF Len(tok) = 0 THEN ParseErr("Empty")
    ELSE LET body == IF tok[1] = "+" THEN Tail(tok) ELSE tok
         IN  IF Len(body) = 0 \/ \E i \in 1..Len(body) : ~IsDigit(body[i])
             THEN ParseErr("InvalidDigit")
             ELSE LET ds == StripZeros([i \in 1..Len(body) |-> DigitVal(body[i])])
                  IN  IF ExceedsU64(ds) THEN ParseErr("PosOverflow")
                      ELSE ParseOk(DecimalValue(ds))

(***************************************************************************)
(* parse_range.  A result is Ok((start, end)), one of the three errors, or *)
(* a panic: `size - 1` on a zero size overflows, which panics when the     *)
(* build checks overflow and wraps to u64::MAX when it does not (and the   *)
(* final bound check then rejects the range, u64::MAX being >= size).      *)
(***************************************************************************)
RangeOk(start, end) == [tag |-> "Ok", start |-> start, end |-> end]
RangeErr(e) == [tag |-> e]
RangePanic == [tag |-> "Panic"]
NotCalled == [tag |-> "NotCalled"]

\* RangeCheck with the bound test one off: `end > size` for `end >= size`.
RangeCheckOffByOne(start, end, size) ==
    IF start > end \/ end > size THEN RangeErr("InvalidRange")
    ELSE RangeOk(start, end)

\* RangeCheck without the bound test: only `start > end` is rejected.
RangeCheckNoUpper(start, end, size) ==
    IF start > end THEN RangeErr("InvalidRange")
    ELSE RangeOk(start, end)

\* The final check of parse_range on a (start, end) pair.
RangeCheck(start, end, size) ==
    IF start > end \/ end >= size THEN RangeErr("InvalidRange")
    ELSE RangeOk(start, end)

\* RangeToLast with the open end clamped onto the start: an end of
\* max(start, size - 1), so that a start past the object is not rejected.
RangeToLastClamped(start, size, checked) ==
    IF size = 0
    THEN IF checked THEN RangePanic ELSE RangeErr("InvalidRange")
    ELSE IF start > size - 1 THEN RangeOk(start, start)
         ELSE RangeOk(start, size - 1)

\* A pair whose end is `size - 1`.
RangeToLast(start, size, checked) ==
    IF size = 0
    THEN IF checked THEN RangePanic ELSE RangeErr("InvalidRange")
    ELSE RangeCheck(start, size - 1, size)

\* SuffixRange counting the suffix from the last byte: `size - 1 - last`.
SuffixRangeFromLast(last, size, checked) ==
    IF last > size THEN RangeToLast(0, size, checked)
    ELSE IF last = size THEN RangeErr("InvalidRange")
         ELSE RangeToLast(size - 1 - last, size, checked)

\* The "-B" arm: the last `last` bytes, the whole object when `last`
\* exceeds the size.
SuffixRange(last, size, checked) ==
    IF last > size THEN RangeToLast(0, size, checked)
    ELSE RangeToLast(size - last, size, checked)

parse_range(range, size, checked) ==
    LET parts == split(range, "-")
    IN  IF Len(parts) # 2 THEN RangeErr("InvalidRangeFormat")
        ELSE LET first == parse_u64(parts[1])
                 second == parse_u64(parts[2])
             IN  CASE Len(parts[1]) > 0 /\ Len(parts[2]) > 0 ->
                        IF ~first.ok \/ ~second.ok THEN RangeErr("ParseIntError")
                        ELSE RangeCheck(first.val, second.val, size)
                   [] Len(parts[1]) > 0 /\ Len(parts[2]) = 0 ->
                        IF ~first.ok THEN RangeErr("ParseIntError")
                        ELSE RangeToLast(first.val, size, checked)
                   [] Len(parts[1]) = 0 /\ Len(parts[2]) > 0 ->
                        IF ~second.ok THEN RangeErr("ParseIntError")
                        ELSE SuffixRange(second.val, size, checked)
                   [] OTHER -> RangeToLast(0, size, checked)

(***************************************************************************)
(* Byte strings.  An object's content is a run of a byte stream named by   *)
(* its seed: [seed, off, len] is the len bytes of stream `seed` from       *)
(* offset off.  Two byte strings of different length differ; reading,      *)
(* slicing and concatenating are computed on the runs.                     *)
(***************************************************************************)
NoBytes == [seed |-> 0, off |-> 0, len |-> 0]

Bytes(seed, off, len) ==
    IF len = 0 THEN NoBytes ELSE [seed |-> seed, off |-> off, len |-> len]

\* &buf[start..=end]
Slice(b, start, end) == Bytes(b.seed, b.off + start, end - start + 1)

\* Appending a chunk to what a sink already holds.  The chunks of one
\* response are consecutive runs of one stream.
Concat(a, b) ==
    IF a.len = 0 THEN b
    ELSE IF b.len = 0 THEN a
    ELSE Bytes(a.seed, a.off, a.len + b.len)

Min(a, b) == IF a <= b THEN a ELSE b

(***************************************************************************)
(* Option values.                                                          *)
(***************************************************************************)
None == [some |-> FALSE]
Some(v) == [some |-> TRUE, val |-> v]

(***************************************************************************)
(* Inputs.                                                                 *)
(***************************************************************************)
MAX_INTERNAL_OBJECT_LENGTH == 1024

Keys == {"k1"}

\* manager.rs line 41
TRANSACTION_RECEIPT_RETRIES == 200

BroadcastModes == {"Async", "Sync", "Commit"}

\* A reader (AsyncRead + AsyncSeek): the stream it reads, the stream's
\* length, the most bytes one read call hands over, and the position it
\* is at when add() receives it.
Reader(seed, len, chunk, pos) ==
    [seed |-> seed, len |-> len, chunk |-> chunk, pos |-> pos]

Readers ==
    { Reader(1, 1023, 4096, 0),
      Reader(1, 1024, 4096, 0),
      Reader(1, 1025, 4096, 0),
      Reader(2, 1025, 1024, 0),
      Reader(2, 0, 4096, 0),
      Reader(4, 1500, 4096, 300) }

\* The whole content behind a reader.
Content(reader) == Bytes(reader.seed, 0, reader.len)

\* AsyncReadExt::read(&mut buf): the bytes one call puts into a buffer of
\* `cap` bytes: at most cap, at most what is left, and at most what the
\* reader hands over at once.
Read(reader, cap) ==
    Bytes(reader.seed, reader.pos,
          Min(Min(cap, reader.chunk), reader.len - reader.pos))

\* The range option of get(): None, or Some(string).
GetRanges ==
    { None,
      Some(<<"0", "-", "9", "9">>),
      Some(<<"1", "0", "2", "4", "-">>),
      Some(<<"5", "-", "1">>) }

(***************************************************************************)
(* Content identifiers.  The Blake3 digest of a content is modelled by the *)
(* content it is the digest of (no two contents collide).                  *)
(***************************************************************************)
Blake3(bytes) == [blake3 |-> bytes]

\* cid::Cid::new_v1(0x55, Multihash::wrap(Blake3_256 (0x1e), hash))
new_v1(codec, mh) == [version |-> 1, codec |-> codec, hash |-> mh]
Multihash(code, digest) == [code |-> code, size |-> 32, digest |-> digest]
\* ObjectCid with the dag-pb codec (0x70) in place of the raw one.
ObjectCidDagPb(object_hash) == new_v1(112, Multihash(30, object_hash))

\* Lines 249-255: the identifier of a detached object.
ObjectCid(object_hash) == new_v1(85, Multihash(30, object_hash))

\* Cid::to_bytes and Cid::try_from(bytes): version, codec, then the
\* multihash (code, digest size, digest).
CidToBytes(cid) ==
    <<cid.version, cid.codec, cid.hash.code, cid.hash.size, cid.hash.digest>>

CidTryFrom(buf) ==
    IF Len(buf) = 5 /\ buf[1] = 1
    THEN Some(new_v1(buf[2], [code |-> buf[3], size |-> buf[4], digest |-> buf[5]]))
    ELSE None

(***************************************************************************)
(* On-ledger descriptors (fendermint_actor_objectstore::Object) and the    *)
(* descriptor kinds of PutParams (ObjectKind).                             *)
(***************************************************************************)
Internal(buf) == [kind |-> "Internal", buf |-> buf]
External(cidbytes, resolved) ==
    [kind |-> "External", cid |-> cidbytes, resolved |-> resolved]

\* KindInternal of the whole sample buffer, its unread tail included (no
\* sample.truncate(sampled)).
KindInternalUntruncated(buf) ==
    [kind |-> "Internal",
     buf |-> Bytes(buf.seed, buf.off, MAX_INTERNAL_OBJECT_LENGTH + 1)]

\* ObjectKind::Internal(ByteBuf(sample)), the sample cut to what was read.
KindInternal(buf) == [kind |-> "Internal", buf |-> buf]
KindExternal(cid) == [kind |-> "External", cid |-> cid]

\* PutParams that never asks to overwrite.
PutParamsNeverOverwrite(key, kind, overwrite) ==
    [method |-> "PutObject", key |-> key, kind |-> kind, overwrite |-> FALSE]

PutParams(key, kind, overwrite) ==
    [method |-> "PutObject", key |-> key, kind |-> kind, overwrite |-> overwrite]

\* DeleteParams sent to the GetObject method (the wrong method number).
DeleteParamsToGetObject(key) == [method |-> "GetObject", key |-> key]

DeleteParams(key) == [method |-> "DeleteObject", key |-> key]

(***************************************************************************)
(* Calls.  A call of add / delete / get is a record: its arguments, the    *)
(* place it has reached (pc), its local variables and, once it has         *)
(* returned, its result (out).                                             *)
(***************************************************************************)
NoResult == [tag |-> "None"]
Ok(receipt) == [tag |-> "Ok", receipt |-> receipt]
Err(e) == [tag |-> "Err", err |-> e]
Panicked == [tag |-> "Panic"]
\* The caller has dropped the call's future before it returned.
Abandoned == [tag |-> "Abandoned"]

NoReader == Reader(0, 0, 0, 0)

\* Lines 100-110: QueryOptions::default().
QueryOptionsDefault ==
    [prefix |-> <<>>, delimiter |-> <<"/">>, offset |-> 0, limit |-> 0]

\* The options of the query() calls: the first entry and the second, asked
\* for one at a time.
ListOptions ==
    { [QueryOptionsDefault EXCEPT !.limit = 1],
      [QueryOptionsDefault EXCEPT !.limit = 1, !.offset = 1] }
NoParams == [method |-> "None"]
NoDigest == Blake3(NoBytes)
NoCid == ObjectCid(NoDigest)

IdleCall ==
    [ op |-> "idle", pc |-> "idle", id |-> 0,
      \* arguments
      key |-> "k1", mode |-> "Commit", overwrite |-> FALSE,
      reader |-> NoReader, range |-> None,
      \* locals of add
      sample |-> NoBytes, sampled |-> None,
      events |-> <<>>, event |-> None, pro_bar |-> FALSE,
      object_size |-> 0, object_hash |-> NoDigest,
      params |-> NoParams, object |-> None,
      \* locals of get
      found |-> None, size |-> 0, request |-> None,
      response |-> NoBytes, stream |-> <<>>,
      \* the chunks the stream has given and the sink has not yet taken
      held |-> <<>>,
      progress |-> 0,
      \* locals of deposit / withdraw
      polls |-> 0,
      \* query: its options, its result, and the query() before it
      options |-> QueryOptionsDefault, listed |-> None, before |-> None,
      writer |-> NoBytes,
      \* the calls made to the collaborators, in order
      log |-> <<>>,
      out |-> NoResult ]

CallIds == {1}

\* What a later call is told of the call before it.
Summary(call) ==
    [ op |-> call.op, key |-> call.key,
      data |-> Content(call.reader), out |-> call.out ]

Returned(call, result) == [call EXCEPT !.pc = "done", !.out = result]

\* The call has called collaborator operation `what`.
Logged(call, what) == [call EXCEPT !.log = Append(call.log, what)]

(***************************************************************************)
(* Ingest progress events of the local blob node (iroh AddProgress), for a *)
(* reader whose content is `blob`.                                         *)
(***************************************************************************)
Found(size) == [ev |-> "Found", size |-> size]
Progress(offset) == [ev |-> "Progress", offset |-> offset]
Done(hash) == [ev |-> "Done", hash |-> hash]
AllDone(hash) == [ev |-> "AllDone", hash |-> hash]
Abort(reason) == [ev |-> "Abort", reason |-> reason]

\* The streams of a whole ingest, of one the node aborts, of one that ends
\* early, and of one whose Found event comes after the others.
\* An item of the stream that is an error, not an event.
ItemErr(reason) == [ev |-> "Err", reason |-> reason]

IngestStreams(blob) ==
    { <<Found(blob.len), Progress(blob.len), Done(Blake3(blob)), AllDone(Blake3(blob))>>,
      <<Found(blob.len), Done(Blake3(blob)), AllDone(Blake3(blob))>>,
      <<Found(blob.len), Progress(1024), Abort("disk full")>>,
      <<Found(blob.len)>>,
      <<Found(blob.len), ItemErr("ingest failed")>>,
      <<Progress(blob.len), Found(blob.len)>> }

(***************************************************************************)
(* The signer (adm_signer::Signer): a wallet, or the read-only Void.       *)
(***************************************************************************)
Signers == {"wallet", "void"}

\* Signer::secret_key()
secret_key(with) == IF with = "void" THEN None ELSE Some("secret key")

\* transaction of a signer that signs whatever it is asked to.
transactionUnchecked(with, params, object) ==
    Some([params |-> params, object |-> object])

\* Signer::transaction(to, value, method, params, object, gas_params)
transaction(with, params, object) ==
    IF with = "void" THEN None
    ELSE Some([params |-> params, object |-> object])

\* Signer::sign_message(message, object)
sign_message(with, message, object) ==
    IF with = "void" THEN None
    ELSE Some([message |-> message, object |-> object])

(***************************************************************************)
(* The ledger: the committed descriptors, and the transactions accepted    *)
(* and not yet applied, in the order they will be applied.                 *)
(***************************************************************************)
Tx(call, message, wait) ==
    [by |-> call.id, params |-> message.params, wait |-> wait]

\* The object store actor on a PutObject / DeleteObject message.
Execute(state, params) ==
    IF params.method = "PutObject"
    THEN IF state[params.key].some /\ ~params.overwrite
         THEN [ok |-> FALSE, state |-> state]
         ELSE [ok |-> TRUE,
               state |-> [state EXCEPT ![params.key] =
                   Some(IF params.kind.kind = "Internal"
                        THEN Internal(params.kind.buf)
                        ELSE External(CidToBytes(params.kind.cid), FALSE))]]
    ELSE IF params.method = "DeleteObject"
    THEN IF state[params.key].some
         THEN [ok |-> TRUE, state |-> [state EXCEPT ![params.key] = None]]
         ELSE [ok |-> FALSE, state |-> state]
    ELSE [ok |-> TRUE, state |-> state]

(***************************************************************************)
(* The staging / retrieval API (ObjectProvider): what it has been told of  *)
(* (upload), and what it serves for a key (size, download).                *)
(***************************************************************************)
\* The content the network holds under an identifier.
BlobOf(cidbytes) == cidbytes[5].blake3

\* The blob the API serves for `key`: that of a resolved External object.
Served(state, key) ==
    IF state[key].some /\ state[key].val.kind = "External" /\ state[key].val.resolved
    THEN Some(BlobOf(state[key].val.cid))
    ELSE None

\* A response body as the chunks of its stream.
RECURSIVE Chunks(_, _)
Chunks(b, n) ==
    IF b.len = 0 THEN <<>>
    ELSE IF b.len <= n THEN <<b>>
    ELSE <<Bytes(b.seed, b.off, n)>> \o Chunks(Bytes(b.seed, b.off + n, b.len - n), n)

\* The body of a download with the range option `range`.
Download(blob, range, checked) ==
    IF ~range.some THEN Some(blob)
    ELSE LET r == parse_range(range.val, blob.len, checked)
         IN  IF r.tag = "Ok" THEN Some(Slice(blob, r.start, r.end)) ELSE None

(***************************************************************************)
(* State.                                                                  *)
(***************************************************************************)
VARIABLES
    calls,      \* the calls of the client, by call slot
    ledger,     \* key -> None or Some(descriptor): the committed state
    mempool,    \* transactions accepted and not yet applied
    announced,  \* the upload (announce) calls the staging API has accepted
    applied,    \* the calls whose transactions the ledger has applied, in order
    prev,       \* the last mutating call before the current reading call
    nops,       \* mutating calls started so far
    signer      \* the signer the client was built with

storeVars == <<calls, ledger, mempool, announced, applied, prev, nops, signer>>

\* What no step changes.
\* A listing of the ledger page by page.
VARIABLES
    lkeys,      \* the keys the ledger holds at the height listed
    lopts,      \* the options of the listing: prefix, delimiter, page size
    lpages      \* the pages got so far: the offset asked for, the answer

listVars == <<lkeys, lopts, lpages>>

\* A fee estimation.
VARIABLES
    fbase,      \* base_fee_per_gas of the latest block: None or Some(wei)
    frewards,   \* fee_history.reward: one row of rewards per block
    fres        \* what premium_estimation has come to

feeVars == <<fbase, frewards, fres>>

fixedVars == <<signer, rangeVars, listVars, feeVars>>

vars == <<storeVars, rangeVars, listVars, feeVars>>

\* No fee estimation is under way.
NoFee ==
    /\ fbase = None
    /\ frewards = <<>>
    /\ fres = NotCalled

\* No listing is under way.
NoListing ==
    /\ lkeys = <<>>
    /\ lopts = QueryOptionsDefault
    /\ lpages = <<>>

\* What the staging API holds of an accepted upload call.
Announced(cid, size, signed) == [cid |-> cid, size |-> size, signed |-> signed]

\* An object an earlier client has stored: nothing, a small object, or a
\* detached object that the ledger has or has not resolved yet.
EarlierBlob == Bytes(3, 0, 3000)
EarlierCid == new_v1(85, Multihash(30, Blake3(EarlierBlob)))
EarlierObjects ==
    { None,
      Some(Internal(Bytes(3, 0, 700))),
      Some(External(CidToBytes(EarlierCid), FALSE)),
      Some(External(CidToBytes(EarlierCid), TRUE)) }

InitStore(earlier, with) ==
    /\ calls = [c \in CallIds |-> IdleCall]
    /\ ledger = [k \in Keys |-> earlier]
    /\ announced =
           IF earlier.some /\ earlier.val.kind = "External"
           THEN {Announced(EarlierCid, EarlierBlob.len, None)}
           ELSE {}
    /\ mempool = <<>>
    /\ applied = <<>>
    /\ signer = with
    /\ prev = Summary(IdleCall)
    /\ nops = 0

Free(c) == calls[c].pc \in {"idle", "done"}

\* The calls that sign and send a transaction; the others only read.
Mutating == {"add", "delete", "transfer", "deposit", "withdraw"}

\* A call starts in a free slot.  The mutating calls of a run are counted
\* and numbered; a reading call leaves no trace to count, and is told of
\* the mutating call before it.
Begin(c, call) ==
    /\ Free(c)
    /\ prev' = IF call.op \in Mutating THEN Summary(IdleCall)
               ELSE IF calls[c].op \in Mutating THEN Summary(calls[c])
               ELSE prev
    /\ IF call.op \in Mutating
       THEN /\ nops < MaxOps
            /\ nops' = nops + 1
            /\ calls' = [calls EXCEPT ![c] = [call EXCEPT !.id = nops + 1]]
       ELSE /\ nops' = nops
            /\ calls' = [calls EXCEPT ![c] = call]
    /\ UNCHANGED <<ledger, mempool, announced, applied, fixedVars>>

\* A step of call c that touches nothing but the call.
Local(c, call) ==
    /\ calls' = [calls EXCEPT ![c] = call]
    /\ UNCHANGED <<ledger, mempool, announced, applied, prev, nops, fixedVars>>

(***************************************************************************)
(* ObjectStore::add                                                        *)
(***************************************************************************)
StartAdd(c) ==
    \E key \in Keys, reader \in Readers, overwrite \in BOOLEAN,
       mode \in BroadcastModes :
        Begin(c, [IdleCall EXCEPT !.op = "add", !.pc = "sample", !.key = key,
                                  !.reader = reader, !.overwrite = overwrite,
                                  !.mode = mode])

\* SampleOutcome without the empty test of lines 203-205.
SampleOutcomeNoEmptyTest(sampled) ==
    IF sampled > MAX_INTERNAL_OBJECT_LENGTH THEN "detached" ELSE "inline"

\* Lines 203-208: what add() does with the count the read returned.
SampleOutcome(sampled) ==
    IF sampled = 0 THEN "empty"
    ELSE IF sampled > MAX_INTERNAL_OBJECT_LENGTH THEN "detached"
    ELSE "inline"

\* Lines 200-208: one read into a buffer of MAX_INTERNAL_OBJECT_LENGTH + 1
\* bytes, the empty test, the rewind, and the choice of the path.
AddSample(c) ==
    LET before == calls[c]
        sample == Read(before.reader, MAX_INTERNAL_OBJECT_LENGTH + 1)
        sampled == sample.len
        rewound == [before.reader EXCEPT !.pos = 0]
        read == [Logged(before, "read") EXCEPT !.sample = sample,
                                               !.sampled = Some(sampled)]
        call == [Logged(read, "rewind") EXCEPT !.reader = rewound]
    IN  /\ before.op = "add" /\ before.pc = "sample"
        /\ CASE SampleOutcome(sampled) = "empty" ->
                   Local(c, Returned(read, Err("cannot add empty object")))
              [] SampleOutcome(sampled) = "detached" ->
                   \E events \in IngestStreams(Content(rewound)) :
                       Local(c, [Logged(call, "add_reader") EXCEPT
                                     !.pc = "ingest", !.events = events])
              [] OTHER ->
                   Local(c, [call EXCEPT !.pc = "sign",
                                         !.params = PutParams(call.key, KindInternal(sample),
                                                              call.overwrite),
                                         !.object = None])

\* Line 202 or 206: the read or the rewind fails.
AddSampleFails(c) ==
    /\ calls[c].op = "add" /\ calls[c].pc = "sample"
    /\ Local(c, Returned(Logged(calls[c], "read"), Err("io error")))

\* OnFound that announces the object as soon as its size is known.
OnFoundAnnounces(call, event) ==
    Logged([call EXCEPT !.object_size = event.size, !.pro_bar = TRUE], "upload")

\* Lines 230-233: the Found event gives the size and opens the progress bar.
OnFound(call, event) ==
    [call EXCEPT !.object_size = event.size, !.pro_bar = TRUE]

\* OnAbort that takes the next event instead of returning.
OnAbortIgnored(call, event) == call

\* Lines 243-245: the Abort event ends add() with the node's reason.
OnAbort(call, event) == Returned(call, Err(event.reason))

\* Lines 240-242: Progress moves the progress bar (pro_bar.unwrap()).
OnProgress(call, event) ==
    IF call.pro_bar THEN call ELSE Returned(call, Panicked)

\* OnDone that announces the object as soon as its last chunk is hashed.
OnDoneAnnounces(call, event) ==
    IF call.pro_bar THEN Logged([call EXCEPT !.pro_bar = FALSE], "upload")
    ELSE Returned(call, Panicked)

\* Lines 234-236: Done takes the progress bar and finishes it
\* (pro_bar.take().unwrap()).
OnDone(call, event) ==
    IF call.pro_bar THEN [call EXCEPT !.pro_bar = FALSE]
    ELSE Returned(call, Panicked)

\* Lines 237-239: AllDone gives the digest and leaves the loop.
OnAllDone(call, event) ==
    [call EXCEPT !.pc = "upload", !.object_hash = event.hash]

\* OnStreamEnd that takes the end of the stream for the end of the ingest.
OnStreamEndCompletes(call) == [call EXCEPT !.pc = "upload"]

\* Lines 225-227: the stream has ended before AllDone.
OnStreamEnd(call) ==
    Returned(call, Err("Unexpected end while ingesting data"))

\* Line 228, `match event?`: an item that is an error ends add() with it.
OnItemError(call, event) == Returned(call, Err(event.reason))

\* Lines 225-247: one turn of the ingest loop, on the call as it stands.
IngestStep(call) ==
    IF call.events = <<>>
    THEN OnStreamEnd(call)
    ELSE LET event == Head(call.events)
             rest == [call EXCEPT !.events = Tail(call.events),
                                  !.event = Some(event)]
         IN  CASE event.ev = "Err" -> OnItemError(rest, event)
               [] event.ev = "Found" -> OnFound(rest, event)
               [] event.ev = "Progress" -> OnProgress(rest, event)
               [] event.ev = "Done" -> OnDone(rest, event)
               [] event.ev = "AllDone" -> OnAllDone(rest, event)
               [] OTHER -> OnAbort(rest, event)

AddIngest(c) ==
    /\ calls[c].op = "add" /\ calls[c].pc = "ingest"
    /\ Local(c, IngestStep(calls[c]))

\* MessageObject::new(key, cid, address), of the one address of the store.
MessageObject(key, cid) == [key |-> key, cid |-> cid]

\* UploadParams that always asks to overwrite.
UploadParamsOverwriting(key, cid, overwrite) ==
    PutParams(key, KindExternal(cid), TRUE)

\* upload(), lines 365-369: the parameters of the pre-image that is signed
\* and sent with the announce call.
UploadParams(key, cid, overwrite) ==
    PutParams(key, KindExternal(cid), overwrite)

\* OnUploadError that goes on to the transaction all the same.
OnUploadErrorIgnored(call, params, object) ==
    [call EXCEPT !.pc = "sign", !.params = params, !.object = object]

\* Lines 262-270 and 384-392: an error of the announce call ends add().
OnUploadError(call, params, object) == Returned(call, Err("upload failed"))

\* Lines 249-270 and 351-395 (upload): the identifier, the signed pre-image,
\* the subnet and node address lookups, and the announce call.
AddUpload(c) ==
    LET call == calls[c]
        object_cid == ObjectCid(call.object_hash)
        params == PutParams(call.key, KindExternal(object_cid), call.overwrite)
        object == Some(MessageObject(call.key, object_cid))
        signed == sign_message(signer,
                               UploadParams(call.key, object_cid, call.overwrite),
                               Some(MessageObject(call.key, object_cid)))
        tried == Logged(call, "sign_message")
        asked == Logged(tried, "upload")
    IN  /\ call.op = "add" /\ call.pc = "upload"
        /\ IF ~signed.some
           THEN Local(c, Returned(tried, Err("void signer cannot sign messages")))
           ELSE \/ Local(c, Returned(tried, Err("failed to get subnet ID from signer")))
                \/ /\ calls' = [calls EXCEPT ![c] =
                          [asked EXCEPT !.pc = "sign", !.params = params,
                                        !.object = object]]
                   /\ announced' = announced \cup
                          {Announced(object_cid, call.object_size, signed)}
                   /\ UNCHANGED <<ledger, mempool, applied, prev, nops, fixedVars>>
                \/ Local(c, OnUploadError(asked, params, object))

\* Lines 286-295 and 322-331: signer.transaction(..).
AddSign(c) ==
    LET call == Logged(calls[c], "transaction")
        message == transaction(signer, call.params, call.object)
    IN  /\ call.op = "add" /\ call.pc = "sign"
        /\ IF message.some
           THEN Local(c, [call EXCEPT !.pc = "perform"])
           ELSE Local(c, Returned(call, Err("void signer cannot create transactions")))

(***************************************************************************)
(* Provider::perform(message, broadcast_mode, decode): the transaction is  *)
(* refused, or it is accepted into the queue; Async and Sync return then,  *)
(* Commit waits until the ledger has applied it.                           *)
(***************************************************************************)
\* OnPerformError that signs and sends the message once more.
OnPerformErrorRetries(call) == [call EXCEPT !.pc = "sign"]

\* Lines 296-299, 331-334 and 420-422: an error of perform is the call's
\* error (`?`, or the returned result itself).
OnPerformError(call) == Returned(call, Err("TxFailed"))

PerformRejected(c) ==
    /\ calls[c].pc = "perform"
    /\ Local(c, OnPerformError(Logged(calls[c], "perform")))

PerformAccepted(c) ==
    LET call == Logged(calls[c], "perform")
        message == transaction(signer, call.params, call.object).val
    IN  /\ call.pc = "perform"
        /\ mempool' = Append(mempool, Tx(call, message, call.mode = "Commit"))
        /\ calls' = [calls EXCEPT ![c] =
               IF call.mode = "Commit" THEN [call EXCEPT !.pc = "commit"]
               ELSE Returned(call, Ok("Pending"))]
        /\ UNCHANGED <<ledger, announced, applied, prev, nops, fixedVars>>

\* The wait of Commit runs out; the transaction stays in the queue.
CommitTimeout(c) ==
    /\ calls[c].pc = "commit"
    /\ Local(c, Returned(calls[c], Err("TxFailed")))

\* The ledger applies the oldest queued transaction, and the call that
\* waits for it (Commit) returns with its receipt.
Apply ==
    /\ mempool # <<>>
    /\ LET tx == Head(mempool)
           res == Execute(ledger, tx.params)
           waiting == {c \in DOMAIN calls :
                           calls[c].id = tx.by /\ calls[c].pc = "commit"}
       IN  /\ ledger' = res.state
           /\ mempool' = Tail(mempool)
           /\ applied' = Append(applied, tx.by)
           /\ calls' = [c \in DOMAIN calls |->
                  IF c \in waiting
                  THEN Returned(calls[c], IF res.ok THEN Ok("Committed")
                                          ELSE Err("TxFailed"))
                  ELSE calls[c]]
    /\ UNCHANGED <<announced, prev, nops, fixedVars>>

\* The ledger confirms that an announced blob is available.
Resolve ==
    \E k \in Keys :
        /\ ledger[k].some
        /\ ledger[k].val.kind = "External"
        /\ ~ledger[k].val.resolved
        /\ \E a \in announced : CidToBytes(a.cid) = ledger[k].val.cid
        /\ ledger' = [ledger EXCEPT ![k] =
               Some(External(ledger[k].val.cid, TRUE))]
        /\ UNCHANGED <<calls, mempool, announced, applied, prev, nops, fixedVars>>

(***************************************************************************)
(* ObjectStore::delete                                                     *)
(***************************************************************************)
StartDelete(c) ==
    \E key \in Keys, mode \in BroadcastModes :
        Begin(c, [IdleCall EXCEPT !.op = "delete", !.pc = "sign", !.key = key,
                                  !.mode = mode,
                                  !.params = DeleteParams(key)])

\* Lines 408-419.
DeleteSign(c) ==
    LET call == Logged(calls[c], "transaction")
        message == transaction(signer, call.params, call.object)
    IN  /\ call.op = "delete" /\ call.pc = "sign"
        /\ IF message.some
           THEN Local(c, [call EXCEPT !.pc = "perform"])
           ELSE Local(c, Returned(call, Err("void signer cannot create transactions")))

(***************************************************************************)
(* The caller abandons a call: it drops the future at one of its awaits,   *)
(* and nothing after that await runs.                                      *)
(***************************************************************************)
Abandon(c) ==
    /\ calls[c].op = "add"
    /\ ~Free(c)
    /\ Local(c, Returned(calls[c], Abandoned))

(***************************************************************************)
(* Adm::transfer, Adm::deposit and Adm::withdraw                           *)
(***************************************************************************)
SendParams == [method |-> "Send"]

StartTransfer(c) ==
    Begin(c, [IdleCall EXCEPT !.op = "transfer", !.pc = "sign",
                              !.mode = "Commit", !.params = SendParams])

\* signer.transaction(to, value, METHOD_SEND, ..); the message is then
\* performed with BroadcastMode::Commit.
TransferSign(c) ==
    LET call == Logged(calls[c], "transaction")
        message == transaction(signer, call.params, call.object)
    IN  /\ call.op = "transfer" /\ call.pc = "sign"
        /\ IF message.some
           THEN Local(c, [call EXCEPT !.pc = "perform"])
           ELSE Local(c, Returned(call, Err("void signer cannot create transactions")))

StartFund(c) ==
    \E op \in {"deposit", "withdraw"} :
        Begin(c, [IdleCall EXCEPT !.op = op, !.pc = "manager"])

\* SubnetManager::new: get_eth_signer needs the signer's secret key.
get_eth_signer(with) ==
    IF secret_key(with).some THEN Some("wallet of the secret key") ELSE None

FundManager(c) ==
    LET call == Logged(calls[c], "secret_key")
    IN  /\ call.op \in {"deposit", "withdraw"} /\ call.pc = "manager"
        /\ IF get_eth_signer(signer).some
           THEN Local(c, [call EXCEPT !.pc = "send"])
           ELSE Local(c, Returned(call, Err("signer does not expose secret key")))

\* manager.rs lines 98-137: the amount is converted, the premium estimated
\* and the gateway call sent; any of them may fail, and then nothing is
\* sent.
FundSend(c) ==
    LET call == calls[c]
        sent == Logged(call, "send")
    IN  /\ call.op \in {"deposit", "withdraw"} /\ call.pc = "send"
        /\ \/ Local(c, Returned(call, Err("invalid value to fund")))
           \/ Local(c, Returned(call, Err("send failed")))
           \/ Local(c, [sent EXCEPT !.pc = "receipt"])

\* OnNoReceipt that sends the transaction again before the next poll.
OnNoReceiptResends(call) ==
    IF call.polls + 1 >= TRANSACTION_RECEIPT_RETRIES
    THEN Returned([call EXCEPT !.polls = call.polls + 1],
                  Err("receipt cannot be obtained"))
    ELSE Logged([call EXCEPT !.polls = call.polls + 1], "send")

\* manager.rs lines 138-143, tx.retries(TRANSACTION_RECEIPT_RETRIES): a
\* poll that brings no receipt is followed by another while the retries
\* last, and by the error of line 140 when they are spent.
OnNoReceipt(call) ==
    IF call.polls + 1 >= TRANSACTION_RECEIPT_RETRIES
    THEN Returned([call EXCEPT !.polls = call.polls + 1],
                  Err("receipt cannot be obtained"))
    ELSE [call EXCEPT !.polls = call.polls + 1]

\* One poll for the receipt of the transaction sent: the receipt, an error
\* of the provider, or nothing yet.
FundPoll(c) ==
    LET call == calls[c]
    IN  /\ call.op \in {"deposit", "withdraw"} /\ call.pc = "receipt"
        /\ \/ Local(c, Returned([call EXCEPT !.polls = call.polls + 1],
                                Ok("TransactionReceipt")))
           \/ Local(c, Returned([call EXCEPT !.polls = call.polls + 1],
                                Err("provider error")))
           \/ Local(c, OnNoReceipt(call))

\* manager.rs lines 138-143 as the one await they are: the wait ends with
\* the receipt, with an error of the provider, or with the last of its
\* polls made and no receipt.
FundWait(c) ==
    LET call == calls[c]
    IN  /\ call.op \in {"deposit", "withdraw"} /\ call.pc = "receipt"
        /\ call.polls = 0
        /\ \/ Local(c, Returned(call, Ok("TransactionReceipt")))
           \/ Local(c, Returned(call, Err("provider error")))
           \/ Local(c, OnNoReceipt([call EXCEPT
                            !.polls = TRANSACTION_RECEIPT_RETRIES - 1]))

(***************************************************************************)
(* ObjectStore::get                                                        *)
(***************************************************************************)
StartGet(c) ==
    \E key \in Keys, range \in GetRanges :
        Begin(c, [IdleCall EXCEPT !.op = "get", !.pc = "query", !.key = key,
                                  !.range = range])

\* Queried that takes an absent object for an empty one.
QueriedAbsentAsEmpty(call, response) ==
    LET got == [call EXCEPT !.found = Some(response)]
    IN  IF ~response.some THEN Returned(got, Ok("written"))
        ELSE IF response.val.kind = "Internal" THEN [got EXCEPT !.pc = "write"]
        ELSE IF ~CidTryFrom(response.val.cid).some
        THEN Returned(got, Err("invalid cid"))
        ELSE IF ~response.val.resolved
        THEN Returned(got, Err("object is not resolved"))
        ELSE [got EXCEPT !.pc = "size"]

\* Queried without the test of the resolved flag.
QueriedUnchecked(call, response) ==
    LET got == [call EXCEPT !.found = Some(response)]
    IN  IF ~response.some THEN Returned(got, Err("object not found"))
        ELSE IF response.val.kind = "Internal" THEN [got EXCEPT !.pc = "write"]
        ELSE IF ~CidTryFrom(response.val.cid).some
        THEN Returned(got, Err("invalid cid"))
        ELSE [got EXCEPT !.pc = "size"]

\* Lines 446-474: the call once the query has answered `response`
\* (Option<Object>), and what follows from the descriptor alone.
Queried(call, response) ==
    LET got == [call EXCEPT !.found = Some(response)]
    IN  IF ~response.some THEN Returned(got, Err("object not found"))
        ELSE IF response.val.kind = "Internal" THEN [got EXCEPT !.pc = "write"]
        ELSE IF ~CidTryFrom(response.val.cid).some
        THEN Returned(got, Err("invalid cid"))
        ELSE IF ~response.val.resolved
        THEN Returned(got, Err("object is not resolved"))
        ELSE [got EXCEPT !.pc = "size"]

\* Lines 442-445: the descriptor query.
GetQuery(c) ==
    /\ calls[c].op = "get" /\ calls[c].pc = "query"
    /\ Local(c, Queried(Logged(calls[c], "call"), ledger[calls[c].key]))

\* The query itself fails (provider.call(..).await?).
GetQueryFails(c) ==
    /\ calls[c].op = "get" /\ calls[c].pc = "query"
    /\ Local(c, Returned(Logged(calls[c], "call"), Err("query failed")))

\* WriteInternal whose slice leaves out the byte at `end`
\* (&buf[start..end]).
WriteInternalExclusive(call, buf, checked) ==
    IF call.range.some
    THEN LET r == parse_range(call.range.val, buf.len, checked)
         IN  CASE r.tag = "Ok" ->
                    Returned([call EXCEPT !.writer = Slice(buf, r.start, r.end - 1)],
                             Ok("written"))
               [] r.tag = "Panic" -> Returned(call, Panicked)
               [] OTHER -> Returned(call, Err(r.tag))
    ELSE Returned([call EXCEPT !.writer = buf], Ok("written"))

\* WriteInternal that hands the payload to the writer before it looks at
\* the range option.
WriteInternalBeforeCheck(call, buf, checked) ==
    IF call.range.some
    THEN LET r == parse_range(call.range.val, buf.len, checked)
         IN  CASE r.tag = "Ok" ->
                    Returned([call EXCEPT !.writer = Slice(buf, r.start, r.end)],
                             Ok("written"))
               [] r.tag = "Panic" -> Returned(call, Panicked)
               [] OTHER -> Returned([call EXCEPT !.writer = buf], Err(r.tag))
    ELSE Returned([call EXCEPT !.writer = buf], Ok("written"))

\* Lines 454-461: the payload `buf` of an Internal descriptor goes to the
\* writer, whole or the slice the range option asks for.
WriteInternal(call, buf, checked) ==
    IF call.range.some
    THEN LET r == parse_range(call.range.val, buf.len, checked)
         IN  CASE r.tag = "Ok" ->
                    Returned([call EXCEPT !.writer = Slice(buf, r.start, r.end)],
                             Ok("written"))
               [] r.tag = "Panic" -> Returned(call, Panicked)
               [] OTHER -> Returned(call, Err(r.tag))
    ELSE Returned([call EXCEPT !.writer = buf], Ok("written"))

\* Lines 457-461 and 490, writer.write_all(..).await?: the sink fails after
\* it has taken the first n bytes of what it was given.
OnWriteError(call, bytes, n) ==
    Returned([call EXCEPT !.writer =
                  Concat(call.writer, Bytes(bytes.seed, bytes.off, n))],
             Err("write failed"))

\* Lines 451-469: an Internal object is written from the descriptor.
GetInternal(c) ==
    LET call == calls[c]
    IN  /\ call.op = "get" /\ call.pc = "write"
        /\ Local(c, WriteInternal(call, call.found.val.val.buf, overflow_checks))

\* The sink fails in a write: of the payload or its slice (Internal), or of
\* a chunk (External), having taken none of it or all but its last byte.
GetWriteFails(c) ==
    LET call == calls[c]
    IN  /\ call.op = "get"
        /\ \/ /\ call.pc = "write"
              /\ LET whole == WriteInternal(call, call.found.val.val.buf,
                                            overflow_checks)
                 IN  /\ whole.out.tag = "Ok"
                     /\ \E n \in {0, whole.writer.len - 1} :
                            Local(c, OnWriteError(call, whole.writer, n))
           \/ /\ call.pc = "stream"
              /\ call.stream # <<>>
              /\ \E n \in {0, Head(call.stream).len - 1} :
                     Local(c, OnWriteError(
                                  [call EXCEPT !.stream = Tail(call.stream)],
                                  Head(call.stream), n))

\* Lines 478-481: the size query.
GetSize(c) ==
    LET call == Logged(calls[c], "size")
        blob == Served(ledger, call.key)
    IN  /\ call.op = "get" /\ call.pc = "size"
        /\ IF blob.some
           THEN Local(c, [call EXCEPT !.pc = "download", !.size = blob.val.len])
           ELSE Local(c, Returned(call, Err("size failed")))

\* DownloadRequest that leaves the range option out.
DownloadRequestUnranged(call) == [key |-> call.key, range |-> None]

\* Lines 482-484: provider.download(address, key, options.range, height).
DownloadRequest(call) == [key |-> call.key, range |-> call.range]

\* Lines 482-485: the download request, carrying the range option as given.
GetDownload(c) ==
    LET call == [Logged(calls[c], "download") EXCEPT
                     !.request = Some(DownloadRequest(calls[c]))]
        blob == Served(ledger, call.request.val.key)
        body == IF blob.some
                THEN Download(blob.val, call.request.val.range, overflow_checks)
                ELSE None
    IN  /\ call.op = "get" /\ call.pc = "download"
        /\ IF body.some
           THEN Local(c, [Logged(call, "bytes_stream") EXCEPT
                              !.pc = "stream", !.response = body.val,
                              !.stream = Chunks(body.val, DownloadChunk)])
           ELSE Local(c, Returned(call, Err("download failed")))

\* OnChunk that puts the chunk before what the writer already holds.
OnChunkPrepends(call, chunk) ==
    [call EXCEPT !.stream = Tail(call.stream),
                 !.writer = Concat(chunk, call.writer),
                 !.progress = Min(call.progress + chunk.len, call.size)]

\* Lines 489-493: a chunk goes to the writer, and the progress bar moves.
OnChunk(call, chunk) ==
    [call EXCEPT !.stream = Tail(call.stream),
                 !.writer = Concat(call.writer, chunk),
                 !.progress = Min(call.progress + chunk.len, call.size)]

\* Lines 487-493: the next chunk of the stream.
GetChunk(c) ==
    LET call == calls[c]
    IN  /\ call.op = "get" /\ call.pc = "stream"
        /\ call.stream # <<>>
        /\ Local(c, OnChunk(call, Head(call.stream)))

\* OnStreamError that takes back what the sink was given.
OnStreamErrorRollsBack(call) ==
    Returned([call EXCEPT !.writer = NoBytes], Err("download failed"))

\* Lines 494-496: an error of the stream ends get(); the writer keeps what
\* it was given.
OnStreamError(call) == Returned(call, Err("download failed"))

GetChunkError(c) ==
    LET call == calls[c]
    IN  /\ call.op = "get" /\ call.pc = "stream"
        /\ Local(c, OnStreamError(call))

\* Lines 499-510: the stream has ended.
GetEnd(c) ==
    LET call == calls[c]
    IN  /\ call.op = "get" /\ call.pc = "stream"
        /\ call.stream = <<>>
        /\ Local(c, Returned(call, Ok("written")))

(***************************************************************************)
(* ObjectStore::query.  Keys are listed as the characters they are written *)
(* with.  The object store actor answers ListObjects: the keys under the   *)
(* prefix in the ledger's order, those with the delimiter after the prefix *)
(* grouped into common prefixes, the others from `offset` on, `limit` at  *)
(* most.                                                                   *)
(***************************************************************************)
KeyOrder == <<"k1">>
KeyText == [k \in Keys |-> <<"k", "1">>]

\* The keys a ledger state holds, in the ledger's order.
KeysOf(state) ==
    LET present == SelectSeq(KeyOrder, LAMBDA k : state[k].some)
    IN  [i \in 1..Len(present) |-> KeyText[present[i]]]

StartsWith(key, prefix) ==
    /\ Len(prefix) <= Len(key)
    /\ SubSeq(key, 1, Len(prefix)) = prefix

\* Where the delimiter is found in the key, after the prefix.
DelimiterAt(key, prefix, delimiter) ==
    IF delimiter = <<>> THEN {}
    ELSE {i \in (Len(prefix) + 1)..(Len(key) - Len(delimiter) + 1) :
              SubSeq(key, i, i + Len(delimiter) - 1) = delimiter}

Grouped(key, prefix, delimiter) == DelimiterAt(key, prefix, delimiter) # {}

CommonPrefix(key, prefix, delimiter) ==
    LET at == CHOOSE i \in DelimiterAt(key, prefix, delimiter) :
                  \A j \in DelimiterAt(key, prefix, delimiter) : i <= j
    IN  SubSeq(key, 1, at + Len(delimiter) - 1)

ListObjects(keys, params) ==
    LET under == SelectSeq(keys, LAMBDA k : StartsWith(k, params.prefix))
        plain == SelectSeq(under, LAMBDA k :
                     ~Grouped(k, params.prefix, params.delimiter))
    IN  [objects |-> SubSeq(plain, params.offset + 1,
                            Min(Len(plain), params.offset + params.limit)),
         common_prefixes |->
             {CommonPrefix(under[i], params.prefix, params.delimiter) :
                  i \in {j \in 1..Len(under) :
                             Grouped(under[j], params.prefix, params.delimiter)}}]

\* ListParams that leaves the offset out.
ListParamsNoOffset(options, served) ==
    [method |-> "ListObjects", prefix |-> options.prefix,
     delimiter |-> options.delimiter, offset |-> 0, limit |-> options.limit]

\* ListParams of a client that goes on from where its last query() ended.
ListParamsResuming(options, served) ==
    [method |-> "ListObjects", prefix |-> options.prefix,
     delimiter |-> options.delimiter, offset |-> options.offset + served,
     limit |-> options.limit]

\* Lines 521-526: the parameters are the options of this call; `served`,
\* the entries earlier calls have returned, has no part in them.
ListParams(options, served) ==
    [method |-> "ListObjects", prefix |-> options.prefix,
     delimiter |-> options.delimiter, offset |-> options.offset,
     limit |-> options.limit]

\* Lines 516-531: query() returns the value of the actor's answer.
Query(keys, options, served) == ListObjects(keys, ListParams(options, served))

StartList(c) ==
    \E options \in ListOptions :
        Begin(c, [IdleCall EXCEPT
                      !.op = "list", !.pc = "list", !.options = options,
                      !.before =
                          IF calls[c].op = "list" /\ calls[c].listed.some
                          THEN Some([options |-> calls[c].options,
                                     listed |-> calls[c].listed.val])
                          ELSE None])

\* Lines 527-530: the call to the actor, and its answer for the keys the
\* ledger holds.
ListQuery(c) ==
    LET call == Logged(calls[c], "call")
        served == IF call.before.some
                  THEN Len(call.before.val.listed.list.objects) ELSE 0
    IN  /\ call.op = "list" /\ call.pc = "list"
        /\ Local(c, Returned([call EXCEPT !.listed =
                                  Some([at |-> KeysOf(ledger),
                                        list |-> Query(KeysOf(ledger),
                                                       call.options, served)])],
                             Ok("listed")))

\* Line 529: the call fails (provider.call(..).await?).
ListQueryFails(c) ==
    /\ calls[c].op = "list" /\ calls[c].pc = "list"
    /\ Local(c, Returned(Logged(calls[c], "call"), Err("query failed")))

(***************************************************************************)
(* The client and the ledger.                                              *)
(***************************************************************************)
Init ==
    /\ \E earlier \in EarlierObjects, with \in Signers : InitStore(earlier, with)
    /\ rspec = <<>>
    /\ rsize = 1
    /\ overflow_checks = TRUE
    /\ rres = NotCalled
    /\ NoListing
    /\ NoFee

Next ==
    \/ \E c \in CallIds :
        \/ StartAdd(c)
        \/ AddSample(c)
        \/ AddSampleFails(c)
        \/ AddIngest(c)
        \/ AddUpload(c)
        \/ AddSign(c)
        \/ Abandon(c)
        \/ StartDelete(c)
        \/ DeleteSign(c)
        \/ StartTransfer(c)
        \/ TransferSign(c)
        \/ StartFund(c)
        \/ FundManager(c)
        \/ FundSend(c)
        \/ FundWait(c)
        \/ PerformRejected(c)
        \/ PerformAccepted(c)
        \/ CommitTimeout(c)
        \/ StartGet(c)
        \/ GetQuery(c)
        \/ GetQueryFails(c)
        \/ GetInternal(c)
        \/ GetWriteFails(c)
        \/ GetSize(c)
        \/ GetDownload(c)
        \/ GetChunk(c)
        \/ GetChunkError(c)
        \/ GetEnd(c)
        \/ StartList(c)
        \/ ListQuery(c)
        \/ ListQueryFails(c)
    \/ Apply
    \/ Resolve

Spec == Init /\ [][Next]_vars

(***************************************************************************)
(* Deposits and withdrawals on their own, with the wait for the receipt    *)
(* taken poll by poll.                                                     *)
(***************************************************************************)
NextFund ==
    \E c \in CallIds :
        \/ StartFund(c)
        \/ FundManager(c)
        \/ FundSend(c)
        \/ FundPoll(c)

SpecFund == Init /\ [][NextFund]_vars

(***************************************************************************)
(* Two writers of one key: two add() calls that have both started, of      *)
(* objects that differ, on a ledger that does not hold the key yet.  The   *)
(* client holds no lock: the steps of the two calls and of the ledger      *)
(* interleave freely.                                                      *)
(***************************************************************************)
RaceIds == {1, 2}

RaceReaders ==
    [c \in RaceIds |->
        IF c = 1 THEN {Reader(1, 1023, 4096, 0), Reader(1, 1025, 4096, 0)}
        ELSE {Reader(2, 1025, 1024, 0), Reader(4, 1500, 4096, 300)}]

RaceAdds(c) ==
    { [IdleCall EXCEPT !.op = "add", !.pc = "sample", !.id = c,
                       !.reader = reader, !.overwrite = overwrite,
                       !.mode = mode] :
          reader \in RaceReaders[c], overwrite \in BOOLEAN,
          mode \in {"Async", "Commit"} }

InitRace ==
    /\ \E first \in RaceAdds(1), second \in RaceAdds(2) :
           calls = [c \in RaceIds |-> IF c = 1 THEN first ELSE second]
    /\ ledger = [k \in Keys |-> None]
    /\ announced = {}
    /\ mempool = <<>>
    /\ applied = <<>>
    /\ signer = "wallet"
    /\ prev = Summary(IdleCall)
    /\ nops = 2
    /\ rspec = <<>>
    /\ rsize = 1
    /\ overflow_checks = TRUE
    /\ rres = NotCalled
    /\ NoListing
    /\ NoFee

NextRace ==
    \/ \E c \in RaceIds :
        \/ AddSample(c)
        \/ AddSampleFails(c)
        \/ AddIngest(c)
        \/ AddUpload(c)
        \/ AddSign(c)
        \/ PerformRejected(c)
        \/ PerformAccepted(c)
        \/ CommitTimeout(c)
    \/ Apply
    \/ Resolve

SpecRace == InitRace /\ [][NextRace]_vars

(***************************************************************************)
(* The download loop of get() await by await (lines 487-498): the call is  *)
(* at stream.next().await ("stream") or at writer.write_all(..).await      *)
(* ("chunk").                                                              *)
(***************************************************************************)
\* OnNext that asks the stream again while the chunk is still to be written.
OnNextAsksAgain(call, chunk) ==
    [call EXCEPT !.stream = Tail(call.stream),
                 !.held = Append(call.held, chunk)]

\* Lines 487-490: stream.next() has given a chunk, and the loop goes to the
\* write of it.
OnNext(call, chunk) ==
    [call EXCEPT !.pc = "chunk",
                 !.stream = Tail(call.stream),
                 !.held = Append(call.held, chunk)]

GetNext(c) ==
    LET call == calls[c]
    IN  /\ call.op = "get" /\ call.pc = "stream"
        /\ call.stream # <<>>
        /\ Local(c, OnNext(call, Head(call.stream)))

\* Lines 490-492: write_all has returned, the chunk is in the sink, the
\* progress bar moves, and the loop goes back to stream.next().
OnWritten(call, chunk) ==
    [call EXCEPT !.pc = "stream",
                 !.held = Tail(call.held),
                 !.writer = Concat(call.writer, chunk),
                 !.progress = Min(call.progress + chunk.len, call.size)]

GetWriteChunk(c) ==
    LET call == calls[c]
    IN  /\ call.op = "get" /\ call.pc = "chunk"
        /\ Local(c, OnWritten(call, Head(call.held)))

\* Line 490: write_all fails, the sink having taken none of the chunk or
\* all but its last byte.
GetWriteChunkFails(c) ==
    LET call == calls[c]
    IN  /\ call.op = "get" /\ call.pc = "chunk"
        /\ \E n \in {0, Head(call.held).len - 1} :
               Local(c, OnWriteError([call EXCEPT !.held = Tail(call.held)],
                                     Head(call.held), n))

\* A ledger that holds a resolved detached object, and no call yet.
InitDownload ==
    /\ InitStore(Some(External(CidToBytes(EarlierCid), TRUE)), "wallet")
    /\ rspec = <<>>
    /\ rsize = 1
    /\ overflow_checks \in BOOLEAN
    /\ rres = NotCalled
    /\ NoListing
    /\ NoFee

NextDownload ==
    \E c \in CallIds :
        \/ StartGet(c)
        \/ GetQuery(c)
        \/ GetQueryFails(c)
        \/ GetSize(c)
        \/ GetDownload(c)
        \/ GetNext(c)
        \/ GetWriteChunk(c)
        \/ GetWriteChunkFails(c)
        \/ GetChunkError(c)
        \/ GetEnd(c)

SpecDownload == InitDownload /\ [][NextDownload]_vars

(***************************************************************************)
(* Fee estimation (manager.rs, premium_estimation).  Amounts of wei (U256) *)
(* are written in two limbs, hi * 10^8 + lo, so that the thresholds of     *)
(* base_fee_surged keep their values.  Rewards are small amounts.          *)
(***************************************************************************)
Limb == 100000000

Wei(hi, lo) == [hi |-> hi, lo |-> lo]
WeiOf(n) == Wei(0, n)

WeiLeq(a, b) == a.hi < b.hi \/ (a.hi = b.hi /\ a.lo <= b.lo)

WeiAdd(a, b) ==
    Wei(a.hi + b.hi + ((a.lo + b.lo) \div Limb), (a.lo + b.lo) % Limb)

\* a * k, for a factor k of at most 16
WeiMul(a, k) == Wei(a.hi * k + ((a.lo * k) \div Limb), (a.lo * k) % Limb)

\* a / d, for a divisor d of at most 10
WeiDiv(a, d) == Wei(a.hi \div d, ((a.hi % d) * Limb + a.lo) \div d)

\* manager.rs lines 196-206
base_fee_surged(base_fee_per_gas) ==
    IF WeiLeq(base_fee_per_gas, Wei(400, 0)) THEN WeiMul(base_fee_per_gas, 2)
    ELSE IF WeiLeq(base_fee_per_gas, Wei(1000, 0))
    THEN WeiDiv(WeiMul(base_fee_per_gas, 16), 10)
    ELSE IF WeiLeq(base_fee_per_gas, Wei(2000, 0))
    THEN WeiDiv(WeiMul(base_fee_per_gas, 14), 10)
    ELSE WeiDiv(WeiMul(base_fee_per_gas, 12), 10)

\* ethers::utils::EIP1559_FEE_ESTIMATION_THRESHOLD_MAX_CHANGE
EIP1559_FEE_ESTIMATION_THRESHOLD_MAX_CHANGE == 200

\* Division of I256: the quotient is cut towards zero.
SignedDiv(a, b) == IF a >= 0 THEN a \div b ELSE -((-a) \div b)

FeeOk(fee) == [tag |-> "Ok", fee |-> fee]
FeePanic == [tag |-> "Panic"]

\* Lines 223-260: the median of the rewards, or of those from the largest
\* jump on if the jump is large and in the upper half.  `unsorted` holds
\* two positive rewards or more.
MedianReward(unsorted) ==
    LET rewards == SortSeq(unsorted, LAMBDA a, b : a < b)
        n == Len(rewards)
        rewards_copy == [i \in 1..n |-> rewards[(i % n) + 1]]
        percentage_change ==
            [i \in 1..(n - 1) |->
                SignedDiv((rewards_copy[i] - rewards[i]) * 100, rewards[i])]
        max_change == CHOOSE m \in {percentage_change[i] : i \in 1..(n - 1)} :
                          \A i \in 1..(n - 1) : percentage_change[i] <= m
        \* position(): the index, counted from 0, of the first such change
        max_change_index ==
            (CHOOSE i \in 1..(n - 1) :
                 /\ percentage_change[i] = max_change
                 /\ \A j \in 1..(i - 1) : percentage_change[j] # max_change) - 1
        values == IF /\ max_change >= EIP1559_FEE_ESTIMATION_THRESHOLD_MAX_CHANGE
                     /\ max_change_index >= n \div 2
                  THEN SubSeq(rewards, max_change_index + 1, n)
                  ELSE rewards
    IN  values[(Len(values) \div 2) + 1]

\* manager.rs lines 211-261.  r[0] is taken of every row, and panics on a
\* row that holds nothing.
estimate_priority_fee(rewards) ==
    IF \E i \in 1..Len(rewards) : rewards[i] = <<>> THEN FeePanic
    ELSE LET first == [i \in 1..Len(rewards) |-> rewards[i][1]]
             positive == SelectSeq(first, LAMBDA r : r > 0)
         IN  IF positive = <<>> THEN FeeOk(0)
             ELSE IF Len(positive) = 1 THEN FeeOk(positive[1])
             ELSE FeeOk(MedianReward(positive))

\* manager.rs lines 166-191: the latest block's base fee, the fee history,
\* and the two fees.
premium_estimation(base, rewards) ==
    IF ~base.some THEN Err("EIP-1559 not activated")
    ELSE LET estimate == estimate_priority_fee(rewards)
             potential_max_fee == base_fee_surged(base.val)
         IN  IF estimate.tag = "Panic" THEN Panicked
             ELSE LET max_priority_fee_per_gas == WeiOf(estimate.fee)
                  IN  [tag |-> "Ok",
                       max_priority_fee_per_gas |-> max_priority_fee_per_gas,
                       max_fee_per_gas |->
                           IF ~WeiLeq(max_priority_fee_per_gas, potential_max_fee)
                           THEN WeiAdd(max_priority_fee_per_gas, potential_max_fee)
                           ELSE potential_max_fee]

\* The base fees tried: the least ones, and those around the thresholds of
\* base_fee_surged.
BaseFees ==
    {Wei(0, n) : n \in 0..MaxReward} \cup
    {Wei(hi, lo) : hi \in {399, 400, 999, 1000, 1999, 2000, 5000},
                   lo \in {0, 1, 7, Limb - 1}}

\* The rows of a fee history: no reward, or one (one percentile is asked
\* for).
RewardRows == {<<>>} \cup {<<r>> : r \in 0..MaxReward}

InitFee ==
    /\ InitStore(None, "wallet")
    /\ rspec = <<>>
    /\ rsize = 1
    /\ overflow_checks = TRUE
    /\ rres = NotCalled
    /\ NoListing
    /\ fbase \in {None} \cup {Some(b) : b \in BaseFees}
    /\ frewards \in SeqsUpTo(RewardRows, MaxBlocks)
    /\ fres = NotCalled

CallPremiumEstimation ==
    /\ fres = NotCalled
    /\ fres' = premium_estimation(fbase, frewards)
    /\ UNCHANGED <<fbase, frewards, storeVars, rangeVars, listVars>>

NextFee == CallPremiumEstimation

SpecFee == InitFee /\ [][NextFee]_vars

(***************************************************************************)
(* query() on its own: one key set at one height, listed page by page by   *)
(* a caller that raises the offset by the page size until a page comes     *)
(* back short.                                                             *)
(***************************************************************************)
KeyPool ==
    << <<"a">>, <<"a", "b">>, <<"a", "/", "x">>, <<"b">>, <<"a", "c">>, <<"c">> >>

\* The key sets: the first MaxKeys keys of the pool, or some of them.
KeyLists ==
    { SelectSeq(SubSeq(KeyPool, 1, MaxKeys), LAMBDA k : k \in S) :
          S \in SUBSET {KeyPool[i] : i \in 1..MaxKeys} }

PageOptions ==
    { [prefix |-> prefix, delimiter |-> delimiter, offset |-> 0, limit |-> limit] :
          prefix \in {<<>>, <<"a">>}, delimiter \in {<<"/">>, <<>>},
          limit \in 1..MaxLimit }

InitList ==
    /\ InitStore(None, "wallet")
    /\ rspec = <<>>
    /\ rsize = 1
    /\ overflow_checks = TRUE
    /\ rres = NotCalled
    /\ lkeys \in KeyLists
    /\ lopts \in PageOptions
    /\ lpages = <<>>
    /\ NoFee

\* The objects of the pages got so far, in the order they came.
RECURSIVE Listed(_)
Listed(pages) ==
    IF pages = <<>> THEN <<>>
    ELSE Listed(SubSeq(pages, 1, Len(pages) - 1)) \o pages[Len(pages)].list.objects

\* The next page: query() with the offset raised by the page size.
ListPage ==
    LET offset == Len(lpages) * lopts.limit
    IN  /\ lpages # <<>> => Len(lpages[Len(lpages)].list.objects) = lopts.limit
        /\ lpages' = Append(lpages,
               [offset |-> offset,
                list |-> Query(lkeys, [lopts EXCEPT !.offset = offset],
                               Len(Listed(lpages)))])
        /\ UNCHANGED <<storeVars, rangeVars, lkeys, lopts, feeVars>>

NextList == ListPage

SpecList == InitList /\ [][NextList]_vars

(***************************************************************************)
(* Claims about add, delete and get.                                       *)
(***************************************************************************)
\* The call has called collaborator operation `what`.
Called(call, what) == \E i \in 1..Len(call.log) : call.log[i] = what

\* A get that has returned, after the call `prev` on the same key.
GetReturnedAfter(call, op) ==
    /\ call.op = "get" /\ call.pc = "done"
    /\ prev.op = op /\ prev.key = call.key

\* C1: for every non-empty object, the PutObject parameters add() submits
\* carry an Internal descriptor when the object's size is <= 1024 bytes and
\* an External descriptor when it is > 1024 bytes, however the reader
\* splits the object across read calls.
C1_ClassifiesBySize ==
    \A c \in CallIds :
        LET call == calls[c]
        IN  (call.op = "add" /\ Called(call, "perform"))
                => call.params.kind.kind =
                       IF Content(call.reader).len <= MAX_INTERNAL_OBJECT_LENGTH
                       THEN "Internal" ELSE "External"

\* C2: round trip.  After add(key, bytes) has returned a successful receipt
\* (the receipt of an applied transaction), a following get(key) with no
\* range that succeeds has written exactly `bytes` to the sink, for objects
\* of 1023, 1024 and 1025 bytes.
C2_RoundTrip ==
    \A c \in CallIds :
        LET call == calls[c]
        IN  (/\ GetReturnedAfter(call, "add")
             /\ prev.out = Ok("Committed")
             /\ prev.data.len \in {1023, 1024, 1025}
             /\ ~call.range.some
             /\ call.out.tag = "Ok")
                => call.writer = prev.data

\* C3: a get whose descriptor query has found no descriptor for the key has
\* failed with ObjectNotFound, whatever its range option, and has written
\* nothing.
C3_AbsentIsNotFound ==
    \A c \in CallIds :
        LET call == calls[c]
        IN  (call.op = "get" /\ call.found = Some(None))
                => /\ call.pc = "done"
                   /\ call.out = Err("object not found")
                   /\ call.writer = NoBytes

C3_Witness ==
    \E c \in CallIds :
        /\ calls[c].op = "get" /\ calls[c].range.some
        /\ calls[c].found = Some(None)
        /\ calls[c].out = Err("object not found")

\* C4: a get that finds an External descriptor whose resolved flag is false
\* fails with ObjectNotResolved, and has asked the staging API neither for
\* the size nor for a download.
C4_UnresolvedFails ==
    \A c \in CallIds :
        LET call == calls[c]
        IN  (/\ call.op = "get" /\ call.found.some /\ call.found.val.some
             /\ call.found.val.val.kind = "External"
             /\ ~call.found.val.val.resolved)
                => /\ call.pc = "done"
                   /\ call.out = Err("object is not resolved")
                   /\ ~Called(call, "size")
                   /\ ~Called(call, "download")
                   /\ call.writer = NoBytes

C4_Witness ==
    \E c \in CallIds :
        /\ calls[c].op = "get"
        /\ calls[c].found = Some(Some(External(CidToBytes(EarlierCid), FALSE)))
        /\ calls[c].out = Err("object is not resolved")

\* C5 as stated: after delete(key) has returned, under any broadcast mode,
\* a following get(key) (its query answered, the client being the only
\* writer) fails with ObjectNotFound.
C5_DeleteThenGetAsStated ==
    \A c \in CallIds :
        LET call == calls[c]
        IN  (/\ GetReturnedAfter(call, "delete")
             /\ prev.out.tag = "Ok"
             /\ call.found.some)
                => call.out = Err("object not found")

\* C5, amended: after delete(key) submitted with Commit has returned its
\* receipt (the transaction is applied), a following get(key) (its query
\* answered, the client being the only writer) fails with ObjectNotFound.
\* Under Async and Sync delete returns once the transaction is queued, and
\* the get finds the object until the ledger has applied it.
C5_DeleteThenGet ==
    \A c \in CallIds :
        LET call == calls[c]
        IN  (/\ GetReturnedAfter(call, "delete")
             /\ prev.out = Ok("Committed")
             /\ call.found.some)
                => call.out = Err("object not found")

C5_Witness ==
    \E c \in CallIds :
        /\ GetReturnedAfter(calls[c], "delete")
        /\ prev.out = Ok("Committed")
        /\ calls[c].out = Err("object not found")

\* The call has a transaction of its own in the queue.
Queued(call) == \E i \in 1..Len(mempool) : mempool[i].by = call.id

\* The call has made none of the calls that announce or submit: no signing
\* of an upload message, no announce, no transaction built, none performed.
NothingSent(call) ==
    /\ ~Called(call, "sign_message")
    /\ ~Called(call, "upload")
    /\ ~Called(call, "transaction")
    /\ ~Called(call, "perform")
    /\ ~Queued(call)

\* C12: sampling does not consume the input.  Once add() has sampled and
\* rewound, it has read at most 1025 bytes and the reader is at the position
\* it had before the sample was read, for every initial position.
C12_SamplingKeepsPosition ==
    \A c \in CallIds :
        LET call == calls[c]
        IN  (call.op = "add" /\ Called(call, "rewind"))
                => /\ call.sample.len <= MAX_INTERNAL_OBJECT_LENGTH + 1
                   /\ call.reader.pos = call.sample.off

\* C13: an add() whose sample read returned zero bytes has failed with
\* EmptyObject having done nothing but that read: no rewind, no ingest, no
\* announce, no call of the signer, no transaction.
C13_EmptyObject ==
    \A c \in CallIds :
        LET call == calls[c]
        IN  (call.op = "add" /\ call.sampled = Some(0))
                => /\ call.pc = "done"
                   /\ call.out = Err("cannot add empty object")
                   /\ call.log = <<"read">>
                   /\ NothingSent(call)

C13_Witness ==
    \E c \in CallIds :
        /\ calls[c].op = "add"
        /\ calls[c].sampled = Some(0)
        /\ calls[c].out = Err("cannot add empty object")

\* C14: a detached add() that has taken an Abort(reason) event from the
\* ingest stream has failed with that reason, and has neither announced the
\* object nor signed or submitted a transaction.
C14_AbortPropagates ==
    \A c \in CallIds :
        LET call == calls[c]
        IN  (call.op = "add" /\ call.event.some /\ call.event.val.ev = "Abort")
                => /\ call.pc = "done"
                   /\ call.out = Err(call.event.val.reason)
                   /\ NothingSent(call)

C14_Witness ==
    \E c \in CallIds :
        /\ calls[c].op = "add"
        /\ calls[c].event = Some(Abort("disk full"))
        /\ calls[c].object_size > MAX_INTERNAL_OBJECT_LENGTH
        /\ calls[c].out = Err("disk full")

\* In the log, a call of `first` comes before a call of `then`.
Precedes(log, first, then) ==
    \E i, j \in 1..Len(log) : i < j /\ log[i] = first /\ log[j] = then

\* The errors with which the announce step of a detached add() ends.
AnnounceErrors ==
    { Err("void signer cannot sign messages"),
      Err("failed to get subnet ID from signer"),
      Err("upload failed") }

\* C15: detached add, ordering.  A transaction carrying External(cid) is
\* built and submitted only after the announce call for that cid has been
\* made and accepted; an add() whose announce step failed has built and
\* submitted no transaction.
C15_AnnounceBeforeTransaction ==
    /\ \A c \in CallIds :
          LET call == calls[c]
          IN  /\ (/\ call.op = "add" /\ Called(call, "transaction")
                  /\ call.params.kind.kind = "External")
                     => /\ Precedes(call.log, "upload", "transaction")
                        /\ \E a \in announced : a.cid = call.params.kind.cid
              /\ (call.op = "add" /\ call.out \in AnnounceErrors)
                     => /\ ~Called(call, "transaction")
                        /\ ~Called(call, "perform")
                        /\ ~Queued(call)
    /\ \A i \in 1..Len(mempool) :
          (/\ mempool[i].params.method = "PutObject"
           /\ mempool[i].params.kind.kind = "External")
              => \E a \in announced : a.cid = mempool[i].params.kind.cid

\* The transaction of a detached add() is in the queue, submitted after the
\* announce of its cid.
C15_Witness ==
    \E c \in CallIds :
        /\ calls[c].op = "add"
        /\ Precedes(calls[c].log, "upload", "perform")
        /\ Queued(calls[c])
        /\ calls[c].params.kind.kind = "External"

\* C16: detached add, abandonment.  An add() on the detached path that the
\* caller has abandoned before the AllDone event was taken has made no
\* announce call, has submitted no transaction and has produced no receipt.
C16_AbandonedBeforeAllDone ==
    \A c \in CallIds :
        LET call == calls[c]
        IN  (/\ call.op = "add" /\ call.out = Abandoned
             /\ Called(call, "add_reader")
             /\ ~(call.event.some /\ call.event.val.ev = "AllDone"))
                => /\ NothingSent(call)
                   /\ call.out.tag # "Ok"

\* Abandoned in the middle of the ingest, after Found and Progress.
C16_Witness ==
    \E c \in CallIds :
        /\ calls[c].op = "add"
        /\ calls[c].out = Abandoned
        /\ calls[c].event = Some(Progress(Content(calls[c].reader).len))
        /\ calls[c].pro_bar

\* The errors of a signer that holds no key.
SigningErrors ==
    { Err("void signer cannot create transactions"),
      Err("void signer cannot sign messages"),
      Err("signer does not expose secret key") }

\* The call has asked the signer to sign, or for its key.
AskedSigner(call) ==
    \/ Called(call, "transaction")
    \/ Called(call, "sign_message")
    \/ Called(call, "secret_key")

\* C17: with the Void signer no mutating call succeeds, a call that has
\* asked the signer has failed with the signer's error, and none has
\* announced an object or submitted a transaction.
C17_VoidSignerFails ==
    signer = "void" =>
        /\ mempool = <<>>
        /\ \A c \in CallIds :
              LET call == calls[c]
              IN  call.op \in Mutating =>
                      /\ call.out.tag # "Ok"
                      /\ AskedSigner(call)
                             => call.pc = "done" /\ call.out \in SigningErrors
                      /\ ~Called(call, "upload")
                      /\ ~Called(call, "perform")
                      /\ ~Called(call, "send")

\* A detached add() refused at the signing of the upload message.
C17_Witness ==
    \E c \in CallIds :
        /\ signer = "void"
        /\ calls[c].op = "add"
        /\ Called(calls[c], "add_reader")
        /\ calls[c].out = Err("void signer cannot sign messages")

\* The bytes of a sequence of chunks, in order.
RECURSIVE Joined(_)
Joined(chunks) ==
    IF chunks = <<>> THEN NoBytes
    ELSE Concat(Head(chunks), Joined(Tail(chunks)))

\* The chunks of the response the call has written: all but those still
\* in the stream.
Written(call) ==
    SubSeq(Chunks(call.response, DownloadChunk), 1,
           Len(Chunks(call.response, DownloadChunk)) - Len(call.stream))

\* C18: a get() whose download stream has failed after k chunks has
\* returned DownloadFailed, and its writer holds exactly the first k chunks
\* of the response (the sink having taken each of them).
C18_DownloadFailureKeepsWritten ==
    \A c \in CallIds :
        LET call == calls[c]
        IN  (/\ call.op = "get" /\ Called(call, "bytes_stream")
             /\ call.pc = "done" /\ call.out.tag # "Ok"
             /\ call.out # Err("write failed"))
                => /\ call.out = Err("download failed")
                   /\ call.writer = Joined(Written(call))

\* The stream failed after one chunk or more, with chunks still to come.
C18_Witness ==
    \E c \in CallIds :
        /\ calls[c].op = "get"
        /\ Called(calls[c], "bytes_stream")
        /\ calls[c].out = Err("download failed")
        /\ calls[c].writer.len >= DownloadChunk
        /\ calls[c].stream # <<>>

\* C19: every call that has ended has ended in a success or in an error
\* (or was abandoned by its caller); none has crashed.
C19_OneOutcome ==
    \A c \in CallIds :
        calls[c].pc = "done" => calls[c].out.tag \in {"Ok", "Err", "Abandoned"}

\* C20: every PutObject with an Internal descriptor that add() builds, and
\* every one in the queue, carries between 1 and 1024 bytes, and they are
\* the bytes the sample read returned.
C20_InternalPayload ==
    /\ \A c \in CallIds :
          LET call == calls[c]
          IN  (/\ call.op = "add" /\ call.params.method = "PutObject"
               /\ call.params.kind.kind = "Internal")
                  => /\ call.params.kind.buf = call.sample
                     /\ call.sampled = Some(call.params.kind.buf.len)
                     /\ call.params.kind.buf.len >= 1
                     /\ call.params.kind.buf.len <= 1024
    /\ \A i \in 1..Len(mempool) :
          (/\ mempool[i].params.method = "PutObject"
           /\ mempool[i].params.kind.kind = "Internal")
              => /\ mempool[i].params.kind.buf.len >= 1
                 /\ mempool[i].params.kind.buf.len <= 1024

\* A queued PutObject whose Internal payload is of 1024 bytes.
C20_Witness ==
    \E i \in 1..Len(mempool) :
        /\ mempool[i].params.method = "PutObject"
        /\ mempool[i].params.kind.kind = "Internal"
        /\ mempool[i].params.kind.buf.len = 1024

\* CIDv1, raw codec (0x55), Blake3-256 multihash (0x1e, 32 bytes) of the
\* digest of `bytes`.
ContentCid(bytes) ==
    [version |-> 1, codec |-> 85,
     hash |-> [code |-> 30, size |-> 32, digest |-> Blake3(bytes)]]

\* The contents this client or an earlier one may have stored.
Contents == {Content(r) : r \in Readers} \cup {EarlierBlob}

\* C22: the identifier add() builds for a detached object is the CIDv1
\* (raw, Blake3-256) of the digest of the object's content and of nothing
\* else: whatever the key, the signer, the ingest events and the calls
\* before, the descriptor of the call, every queued descriptor and every
\* announce carry the identifier of a content.
C22_ContentAddressed ==
    /\ \A c \in CallIds :
          LET call == calls[c]
          IN  (/\ call.op = "add" /\ call.params.method = "PutObject"
               /\ call.params.kind.kind = "External")
                  => call.params.kind.cid = ContentCid(Content(call.reader))
    /\ \A i \in 1..Len(mempool) :
          (/\ mempool[i].params.method = "PutObject"
           /\ mempool[i].params.kind.kind = "External")
              => \E b \in Contents : mempool[i].params.kind.cid = ContentCid(b)
    /\ \A a \in announced :
          \E b \in Contents : a.cid = ContentCid(b) /\ a.size = b.len

\* A detached add on a ledger that holds an earlier object has announced
\* and queued the identifier of its 1500 bytes.
C22_Witness ==
    \E c \in CallIds :
        /\ calls[c].op = "add"
        /\ Queued(calls[c])
        /\ calls[c].params.kind = KindExternal(ContentCid(Bytes(4, 0, 1500)))
        /\ \E a \in announced : a.cid = ContentCid(Bytes(4, 0, 1500))
        /\ \E a \in announced : a.cid = ContentCid(EarlierBlob)

\* The ingest loop run to its end from the call as it stands.
RECURSIVE RunIngest(_)
RunIngest(call) ==
    IF call.pc # "ingest" THEN call ELSE RunIngest(IngestStep(call))

\* What add() has come to when the ingest loop is left: the result if it
\* has returned, and what the announce and the transaction will carry.
IngestOutcome(call) ==
    LET end == RunIngest(call)
    IN  [pc |-> end.pc, out |-> end.out,
         object_size |-> end.object_size, object_hash |-> end.object_hash]

WithoutProgress(events) == SelectSeq(events, LAMBDA e : e.ev # "Progress")

\* C25: Progress events do not matter.  A detached add() comes to the same
\* outcome on its event stream and on that stream with the Progress events
\* taken out.
C25_ProgressIndependent ==
    \A c \in CallIds :
        LET call == calls[c]
        IN  (call.op = "add" /\ call.pc = "ingest")
                => IngestOutcome(call) =
                   IngestOutcome([call EXCEPT !.events = WithoutProgress(call.events)])

\* The size of the object behind a descriptor.
ObjectSize(object) ==
    IF object.kind = "Internal" THEN object.buf.len ELSE BlobOf(object.cid).len

\* The get() has found a descriptor of kind `kind` (External: resolved).
GetFound(call, kind) ==
    /\ call.op = "get"
    /\ call.found.some /\ call.found.val.some
    /\ call.found.val.val.kind = kind
    /\ kind = "External" => call.found.val.val.resolved

\* The range option of the get() is one the parser rejects for the size of
\* the object found.
RangeRejected(call) ==
    /\ call.range.some
    /\ parse_range(call.range.val, ObjectSize(call.found.val.val),
                   overflow_checks).tag \notin {"Ok", "Panic"}

\* C27 as stated: a get() with a range the parser rejects for the object's
\* size has failed with the parser's error, and has sent no download
\* request, whether the descriptor is Internal or External.
C27_RangeValidatedInBothAsStated ==
    \A c \in CallIds :
        LET call == calls[c]
        IN  (/\ \/ GetFound(call, "Internal")
                \/ GetFound(call, "External")
             /\ call.pc = "done"
             /\ RangeRejected(call))
                => /\ call.out.tag = "Err"
                   /\ call.out.err = parse_range(call.range.val,
                                                 ObjectSize(call.found.val.val),
                                                 overflow_checks).tag
                   /\ ~Called(call, "download")

\* C27: only the Internal branch of get() runs the range parser.  On an
\* Internal descriptor a range the parser rejects ends get() with the
\* parser's error, nothing written and nothing requested.  On a resolved
\* External descriptor get() goes on to the download request once the size
\* is known, and the request carries the range as given, rejected or not.
C27_RangeValidatedInternalOnly ==
    \A c \in CallIds :
        LET call == calls[c]
        IN  /\ (/\ GetFound(call, "Internal")
                /\ call.pc = "done"
                /\ RangeRejected(call))
                   => /\ call.out.tag = "Err"
                      /\ call.out.err = parse_range(call.range.val,
                                                    ObjectSize(call.found.val.val),
                                                    overflow_checks).tag
                      /\ call.writer = NoBytes
                      /\ call.log = <<"call">>
            /\ (/\ GetFound(call, "External")
                /\ call.pc = "done"
                /\ call.out # Err("size failed"))
                   => /\ Called(call, "download")
                      /\ call.request = Some([key |-> call.key, range |-> call.range])

\* A get() of a resolved External object with the range "5-1" has sent
\* its download request.
C27_Witness ==
    \E c \in CallIds :
        /\ GetFound(calls[c], "External")
        /\ calls[c].pc = "done"
        /\ calls[c].range = Some(<<"5", "-", "1">>)
        /\ RangeRejected(calls[c])
        /\ Called(calls[c], "download")

\* C28: get() on an Internal descriptor asks for no size and no download.
\* Without a range it writes the whole payload; with a range the parser
\* accepts as (start, end) it writes the end - start + 1 bytes at offsets
\* start..end of the payload (to a sink that takes what it is given: a
\* failure of the sink is the call's error).
C28_InternalGet ==
    \A c \in CallIds :
        LET call == calls[c]
            buf == call.found.val.val.buf
            r == parse_range(call.range.val, buf.len, overflow_checks)
        IN  (GetFound(call, "Internal") /\ call.pc = "done")
                => /\ call.log = <<"call">>
                   /\ ~call.request.some
                   /\ (~call.range.some /\ call.out # Err("write failed"))
                          => call.out = Ok("written") /\ call.writer = buf
                   /\ (call.range.some /\ r.tag = "Ok"
                          /\ call.out # Err("write failed"))
                          => /\ call.out = Ok("written")
                             /\ call.writer.len = r.end - r.start + 1
                             /\ call.writer.seed = buf.seed
                             /\ call.writer.off = buf.off + r.start
                   /\ (call.range = Some(<<"0", "-", "9", "9">>) /\ buf.len >= 100
                          /\ call.out # Err("write failed"))
                          => call.writer = Bytes(buf.seed, buf.off, 100)

\* A get() with the range "0-99" has written the first 100 bytes of an
\* Internal payload.
C28_Witness ==
    \E c \in CallIds :
        /\ GetFound(calls[c], "Internal")
        /\ calls[c].pc = "done"
        /\ calls[c].range = Some(<<"0", "-", "9", "9">>)
        /\ calls[c].out = Ok("written")
        /\ calls[c].writer.len = 100

\* How many times the call has called collaborator operation `what`.
Count(call, what) ==
    Cardinality({i \in 1..Len(call.log) : call.log[i] = what})

\* C29: get() on a resolved External descriptor asks for the size before
\* it sends its one download request, the request carries the range option
\* as given, and a get() that has succeeded has written the chunks of the
\* response in their order: the writer holds the whole response.
C29_ExternalGet ==
    \A c \in CallIds :
        LET call == calls[c]
        IN  GetFound(call, "External")
                => /\ Count(call, "download") <= 1
                   /\ Called(call, "download")
                          => /\ Precedes(call.log, "size", "download")
                             /\ call.request =
                                    Some([key |-> call.key, range |-> call.range])
                   /\ (call.pc = "done" /\ call.out.tag = "Ok")
                          => /\ call.log = <<"call", "size", "download", "bytes_stream">>
                             /\ call.stream = <<>>
                             /\ call.writer = Joined(Chunks(call.response, DownloadChunk))
                             /\ call.writer = call.response

\* A ranged get() of a resolved External object has succeeded after
\* writing several chunks.
C29_Witness ==
    \E c \in CallIds :
        /\ GetFound(calls[c], "External")
        /\ calls[c].pc = "done"
        /\ calls[c].out = Ok("written")
        /\ calls[c].range.some
        /\ Len(Chunks(calls[c].response, DownloadChunk)) >= 2

\* C30: add() announces at most once, only on the detached path and only
\* once the AllDone event has been taken from the stream; while the loop
\* runs, and after a Found, Progress or Done event, nothing is announced,
\* signed or submitted.
C30_AnnounceOnAllDone ==
    \A c \in CallIds :
        LET call == calls[c]
        IN  call.op = "add"
                => /\ Count(call, "upload") <= 1
                   /\ Called(call, "upload")
                          => /\ call.event.some
                             /\ call.event.val.ev = "AllDone"
                             /\ call.sampled.some
                             /\ SampleOutcome(call.sampled.val) = "detached"
                   /\ (call.sampled.some /\ SampleOutcome(call.sampled.val) = "inline")
                          => ~Called(call, "upload") /\ ~Called(call, "sign_message")
                   /\ call.pc = "ingest" => NothingSent(call)
                   /\ (call.event.some /\ call.event.val.ev \in {"Found", "Progress", "Done"})
                          => NothingSent(call)

\* A detached add() that has taken AllDone has announced once and queued
\* its transaction.
C30_Witness ==
    \E c \in CallIds :
        /\ calls[c].op = "add"
        /\ Count(calls[c], "upload") = 1
        /\ calls[c].event.some /\ calls[c].event.val.ev = "AllDone"
        /\ Queued(calls[c])

ListingDone ==
    /\ lpages # <<>>
    /\ Len(lpages[Len(lpages)].list.objects) < lopts.limit

\* The keys of the key set that are under the prefix and in no group.
PlainKeys ==
    {lkeys[i] : i \in {j \in 1..Len(lkeys) :
                          /\ StartsWith(lkeys[j], lopts.prefix)
                          /\ ~Grouped(lkeys[j], lopts.prefix, lopts.delimiter)}}

C26_ReadsArePure ==
    \A c \in CallIds :
        LET call == calls[c]
        IN  call.op \in {"get", "list"}
                => /\ ~AskedSigner(call)
                   /\ NothingSent(call)
                   /\ \A i \in 1..Len(call.log) :
                          call.log[i] \in {"call", "size", "download", "bytes_stream"}
                   /\ (/\ call.op = "list"
                       /\ call.listed.some
                       /\ call.before.some
                       /\ call.before.val.options = call.options
                       /\ call.before.val.listed.at = call.listed.val.at)
                          => call.listed.val.list = call.before.val.listed.list

\* A query() has returned the key it returned to the same query() before.
C26_Witness ==
    \E c \in CallIds :
        /\ calls[c].op = "list"
        /\ calls[c].listed.some
        /\ calls[c].before.some
        /\ calls[c].before.val.options = calls[c].options
        /\ calls[c].before.val.listed.at = calls[c].listed.val.at
        /\ calls[c].listed.val.list.objects = << <<"k", "1">> >>

\* The writer whose descriptor the ledger holds once it has applied the
\* transactions of `order`, the key not being there at first: the first
\* one applied, unless the second overwrites.  0: none yet.
Winner(order) ==
    IF order = <<>> THEN 0
    ELSE IF Len(order) = 1 THEN order[1]
    ELSE IF calls[order[2]].overwrite THEN order[2]
    ELSE order[1]

\* The descriptor is the one the call has built, whole.
DescriptorOf(object, call) ==
    /\ call.params.method = "PutObject"
    /\ IF call.params.kind.kind = "Internal"
       THEN object = Internal(call.params.kind.buf)
       ELSE /\ object.kind = "External"
            /\ object.cid = CidToBytes(call.params.kind.cid)

\* C23: two concurrent writers of one key.  Whatever the interleaving, the
\* ledger holds no descriptor until it has applied a transaction, and then
\* the whole descriptor of one writer: of the one whose transaction it
\* applied first, or of the other if that one overwrites.  The order of
\* application decides, and each transaction is applied once.
C23_OneWriterWins ==
    /\ Len(applied) <= 2
    /\ \A i, j \in 1..Len(applied) : i # j => applied[i] # applied[j]
    /\ \A k \in Keys :
          IF Winner(applied) = 0 THEN ~ledger[k].some
          ELSE /\ ledger[k].some
               /\ DescriptorOf(ledger[k].val, calls[Winner(applied)])
               /\ \A c \in DOMAIN calls :
                      (c # Winner(applied)
                       /\ calls[c].params.method = "PutObject"
                       /\ calls[c].params.kind # calls[Winner(applied)].params.kind)
                          => ~DescriptorOf(ledger[k].val, calls[c])

\* The writer that started first, the only one to announce, has lost: the
\* ledger applied its transaction first and the other's, which overwrites,
\* second.
C23_Witness ==
    /\ applied = <<1, 2>>
    /\ calls[2].overwrite
    /\ Called(calls[1], "upload")
    /\ ~Called(calls[2], "upload")
    /\ DescriptorOf(ledger["k1"].val, calls[2])
    /\ ~DescriptorOf(ledger["k1"].val, calls[1])
    /\ calls[1].out = Ok("Committed")

\* A detached add that has succeeded.
DetachedAddDone(call) ==
    /\ call.op = "add"
    /\ call.out.tag = "Ok"
    /\ call.sampled.some
    /\ call.sampled.val > MAX_INTERNAL_OBJECT_LENGTH

\* C32: in every successful detached add the identifier of the announce
\* call, the identifier in the signed pre-image sent with it and the
\* External identifier of the submitted PutObject transaction are the one
\* identifier derived from the AllDone hash, with the same key and the same
\* overwrite flag, and the announced size is the size the Found event
\* reported.
C32_AnnounceMatchesTransaction ==
    \A c \in CallIds :
        LET call == calls[c]
            cid == ObjectCid(call.event.val.hash)
            put == [method |-> "PutObject", key |-> call.key,
                    kind |-> [kind |-> "External", cid |-> cid],
                    overwrite |-> call.overwrite]
            announce == [cid |-> cid, size |-> call.object_size,
                         signed |-> Some([message |-> put,
                                          object |-> Some([key |-> call.key,
                                                           cid |-> cid])])]
        IN  DetachedAddDone(call) =>
                /\ call.event.val.ev = "AllDone"
                /\ announce \in announced
                /\ \A a \in announced :
                       a.signed.some
                           => /\ a.signed.val.message.kind = [kind |-> "External",
                                                              cid |-> a.cid]
                              /\ a.signed.val.object.val.cid = a.cid
                              /\ a.signed.val.object.val.key =
                                     a.signed.val.message.key
                /\ call.params = put
                /\ call.object = Some([key |-> call.key, cid |-> cid])
                /\ \A i \in 1..Len(mempool) :
                       mempool[i].by = call.id => mempool[i].params = put

\* A detached add with the overwrite flag has been committed over an
\* earlier object, and the ledger holds its identifier.
C32_Witness ==
    \E c \in CallIds :
        /\ DetachedAddDone(calls[c])
        /\ calls[c].overwrite
        /\ calls[c].out = Ok("Committed")
        /\ applied = <<calls[c].id>>
        /\ ledger[calls[c].key] =
               Some(External(CidToBytes(ObjectCid(calls[c].object_hash)), FALSE))
        /\ Cardinality(announced) = 2

\* The transactions of call `id` that the ledger has accepted, queued or
\* applied.
Submitted(id) ==
    Cardinality({i \in 1..Len(mempool) : mempool[i].by = id})
        + Cardinality({i \in 1..Len(applied) : applied[i] = id})

\* C33: an add or delete call asks the signer for a transaction at most
\* once and submits at most one transaction, and a failure of signing or
\* of the broadcast ends the call with an error, with no second attempt.
C33_NoRetry ==
    \A c \in CallIds :
        LET call == calls[c]
        IN  call.op \in {"add", "delete"} =>
                /\ Count(call, "transaction") <= 1
                /\ Count(call, "perform") <= 1
                /\ Submitted(call.id) <= Count(call, "perform")
                /\ (Called(call, "transaction") /\ signer = "void")
                       => /\ call.pc = "done"
                          /\ call.out = Err("void signer cannot create transactions")
                          /\ ~Called(call, "perform")
                          /\ Submitted(call.id) = 0
                /\ (Called(call, "perform") /\ Submitted(call.id) = 0)
                       => /\ call.pc = "done"
                          /\ call.out = Err("TxFailed")

\* A delete whose broadcast was refused has ended with the error, after one
\* transaction and one perform, and nothing is queued.
C33_Witness ==
    \E c \in CallIds :
        /\ calls[c].op = "delete"
        /\ calls[c].pc = "done"
        /\ calls[c].out = Err("TxFailed")
        /\ calls[c].log = <<"transaction", "perform">>
        /\ mempool = <<>>
        /\ applied = <<>>

\* The ingest loop of call c is about to take the end of the stream or an
\* error item: no AllDone event has been taken yet.
IngestCutShort(c) ==
    /\ calls[c].op = "add"
    /\ calls[c].pc = "ingest"
    /\ \/ calls[c].events = <<>>
       \/ Head(calls[c].events).ev = "Err"

\* C34: if the ingest stream ends or yields an error item before an AllDone
\* event, the turn of the loop that takes it ends the add with an error, and
\* the add has made no announce call and submitted no transaction.
C34_TruncatedIngest ==
    [][\A c \in CallIds :
           (/\ IngestCutShort(c)
            /\ calls'[c] # calls[c]
            /\ calls'[c].out # Abandoned)
               => /\ calls'[c].pc = "done"
                  /\ calls'[c].out.tag = "Err"
                  /\ calls'[c].log = <<"read", "rewind", "add_reader">>
                  /\ announced' = announced
                  /\ mempool' = mempool
                  /\ applied' = applied
                  /\ \A i \in 1..Len(mempool) : mempool[i].by # calls[c].id
                  /\ \A i \in 1..Len(applied) : applied[i] # calls[c].id]_vars

\* An add whose stream gave an error item after Found has failed with that
\* error, with nothing announced and nothing queued.
C34_Witness ==
    \E c \in CallIds :
        /\ calls[c].op = "add"
        /\ calls[c].pc = "done"
        /\ calls[c].out = Err("ingest failed")
        /\ calls[c].event = Some(ItemErr("ingest failed"))
        /\ ~Called(calls[c], "upload")
        /\ mempool = <<>>

\* An add whose stream ended after Found has failed with the error of the
\* unexpected end.
C34_EndReached ==
    \E c \in CallIds :
        /\ calls[c].op = "add"
        /\ calls[c].out = Err("Unexpected end while ingesting data")
        /\ calls[c].event.some
        /\ calls[c].event.val.ev = "Found"

\* A get() that has failed.
GetFailed(call) ==
    /\ call.op = "get"
    /\ call.pc = "done"
    /\ call.out.tag = "Err"

\* C35: a get() that has failed with object not found, with object not
\* resolved, with an identifier that cannot be decoded, or with a range
\* error in the Internal branch has written nothing to the sink; the sink
\* of a failed get() holds bytes only if the failure was in the chunked
\* download or in a write to the sink.
C35_NothingWrittenBeforeValidation ==
    \A c \in CallIds :
        LET call == calls[c]
        IN  GetFailed(call) =>
                /\ call.out \in {Err("object not found"),
                                 Err("object is not resolved"),
                                 Err("invalid cid")}
                       => call.writer = NoBytes
                /\ (GetFound(call, "Internal") /\ call.out # Err("write failed"))
                       => /\ RangeRejected(call)
                          /\ call.writer = NoBytes
                /\ call.writer # NoBytes
                       => \/ /\ call.out = Err("download failed")
                             /\ Called(call, "bytes_stream")
                          \/ call.out = Err("write failed")

\* A get() of a small object with a range the parser rejects has failed
\* with nothing in the sink.
C35_Witness ==
    \E c \in CallIds :
        /\ GetFailed(calls[c])
        /\ GetFound(calls[c], "Internal")
        /\ RangeRejected(calls[c])
        /\ calls[c].out # Err("write failed")
        /\ calls[c].writer = NoBytes

\* A get() whose sink failed in the write of the second chunk holds the
\* first chunk and all but the last byte of the second.
C35_SinkFailed ==
    \E c \in CallIds :
        /\ GetFailed(calls[c])
        /\ calls[c].out = Err("write failed")
        /\ calls[c].writer.len = 2 * DownloadChunk - 1

\* C31: in get() on a resolved External object the next chunk is asked of
\* the download stream only after the chunk before it has been written to
\* the sink whole, so at most one chunk is held between the stream and the
\* sink.
C31_Backpressure ==
    [][\A c \in CallIds :
           (/\ calls[c].op = "get"
            /\ calls[c].pc \in {"stream", "chunk"}
            /\ calls'[c].pc \in {"stream", "chunk"}
            /\ Len(calls'[c].stream) < Len(calls[c].stream))
               => /\ calls[c].held = <<>>
                  /\ calls[c].writer = Joined(Written(calls[c]))
                  /\ calls'[c].held = <<Head(calls[c].stream)>>
                  /\ calls'[c].writer = calls[c].writer]_vars

\* The second chunk of a response is held, the first is in the sink whole,
\* and the stream has more to give.
C31_Witness ==
    \E c \in CallIds :
        /\ calls[c].op = "get"
        /\ calls[c].pc = "chunk"
        /\ Len(calls[c].held) = 1
        /\ calls[c].writer.len = DownloadChunk
        /\ calls[c].held[1].off = calls[c].writer.off + DownloadChunk
        /\ calls[c].stream # <<>>

\* At most one chunk is held at any time, and none while the loop is at the
\* stream.
OneChunkHeld ==
    \A c \in CallIds :
        /\ Len(calls[c].held) <= 1
        /\ calls[c].pc = "stream" => calls[c].held = <<>>

(***************************************************************************)
(* Fee estimation bounds.                                                  *)
(***************************************************************************)
\* The positive entries of a fee history's reward rows.
PositiveRewards(rewards) ==
    UNION {{rewards[i][j] : j \in {k \in 1..Len(rewards[i]) : rewards[i][k] > 0}} :
           i \in 1..Len(rewards)}

\* What the claim says of an estimation that has been given a base fee b
\* and the rewards: it returns, the fee cap is at least the priority fee,
\* the priority fee is 0 if no reward is positive and one of the positive
\* rewards otherwise, and the surged base fee is at least b * 12 / 10.
FeeBounds ==
    /\ fres.tag = "Ok"
    /\ WeiLeq(fres.max_priority_fee_per_gas, fres.max_fee_per_gas)
    /\ fres.max_priority_fee_per_gas.hi = 0
    /\ IF PositiveRewards(frewards) = {}
       THEN fres.max_priority_fee_per_gas.lo = 0
       ELSE fres.max_priority_fee_per_gas.lo \in PositiveRewards(frewards)
    /\ WeiLeq(WeiDiv(WeiMul(fbase.val, 12), 10), base_fee_surged(fbase.val))

\* C36: premium_estimation always returns max_fee_per_gas >=
\* max_priority_fee_per_gas, estimate_priority_fee returns 0 when no reward
\* entry is positive and one of the positive rewards given to it otherwise,
\* and base_fee_surged(b) is at least b * 12 / 10 for every base fee b.
C36_FeeBounds ==
    (fres # NotCalled /\ fbase.some) => FeeBounds

\* The same bounds for a fee history every row of which holds a reward.
FeeBoundsOnFullRows ==
    (/\ fres # NotCalled
     /\ fbase.some
     /\ \A i \in 1..Len(frewards) : frewards[i] # <<>>) => FeeBounds

\* An estimation over three blocks whose largest jump is in the upper half.
FeeJumpTaken ==
    /\ fres # NotCalled
    /\ fbase = Some(Wei(1000, 1))
    /\ frewards = <<<<1>>, <<3>>, <<1>>>>
    /\ fres.tag = "Ok"
    /\ fres.max_priority_fee_per_gas = WeiOf(3)

(***************************************************************************)
(* The range parser on its own: every enumerated string against every      *)
(* size.                                                                   *)
(***************************************************************************)
InitRange ==
    /\ InitStore(None, "wallet")
    /\ rspec \in RangeSpecs
    /\ rsize \in 1..MaxSize
    /\ overflow_checks \in BOOLEAN
    /\ rres = NotCalled
    /\ NoListing
    /\ NoFee

CallParseRange ==
    /\ rres = NotCalled
    /\ rres' = parse_range(rspec, rsize, overflow_checks)
    /\ UNCHANGED <<rspec, rsize, overflow_checks, storeVars, listVars, feeVars>>

NextRange == CallParseRange

SpecRange == InitRange /\ [][NextRange]_vars

(***************************************************************************)
(* Claims about the range parser.  The claims speak of the integers A and  *)
(* B a range string is written with: ToDecimal writes an integer out, so   *)
(* the strings of a form are built from the integers and not read back     *)
(* with the parser under check.                                            *)
(***************************************************************************)
RECURSIVE ToDecimal(_)
ToDecimal(n) ==
    IF n < 10 THEN <<Digits[n + 1]>>
    ELSE ToDecimal(n \div 10) \o <<Digits[(n % 10) + 1]>>

ClaimNums == 0..MaxNum

RangeCalled == rres # NotCalled

WholeObject == RangeOk(0, rsize - 1)

\* The strings "A-B", each with the integers it is written with.
TwoSidedForms ==
    { [spec |-> ToDecimal(a) \o <<"-">> \o ToDecimal(b), a |-> a, b |-> b] :
        a \in ClaimNums, b \in ClaimNums }

\* C6: two-sided form.  For every size N >= 1 and integers A, B (written in
\* decimal, within u64), parse_range("A-B", N) returns (A, B) if and only if
\* A <= B and B < N, and fails with InvalidRange otherwise.
C6_TwoSided ==
    RangeCalled =>
        \A f \in TwoSidedForms :
            rspec = f.spec
                => rres = IF f.a <= f.b /\ f.b < rsize THEN RangeOk(f.a, f.b)
                          ELSE RangeErr("InvalidRange")

C6_Witness ==
    /\ rspec = <<"1", "-", "4">>
    /\ rsize = 5
    /\ rres = RangeOk(1, 4)

\* C7 as stated: for every B >= 0, parse_range("-B", N) succeeds, with
\* (0, N-1) when B > N and (N-B, N-1) otherwise.
C7_SuffixAsStated ==
    \A b \in ClaimNums :
        (RangeCalled /\ rspec = <<"-">> \o ToDecimal(b))
            => rres = IF b > rsize THEN WholeObject
                      ELSE RangeOk(rsize - b, rsize - 1)

\* C7, amended: for every B >= 1, parse_range("-B", N) succeeds, with
\* (0, N-1) when B > N and (N-B, N-1) otherwise; "-0" names no byte and
\* fails with InvalidRange.
C7_Suffix ==
    \A b \in ClaimNums :
        (RangeCalled /\ rspec = <<"-">> \o ToDecimal(b))
            => rres = IF b = 0 THEN RangeErr("InvalidRange")
                      ELSE IF b > rsize THEN WholeObject
                      ELSE RangeOk(rsize - b, rsize - 1)

C7_Witness ==
    /\ rspec = <<"-", "1", "0">>
    /\ rsize = 4
    /\ rres = RangeOk(0, 3)

\* C8 as stated: for every A >= 0, parse_range("A-", N) returns (A, N-1).
C8_OpenEndedAsStated ==
    \A a \in ClaimNums :
        (RangeCalled /\ rspec = ToDecimal(a) \o <<"-">>)
            => rres = RangeOk(a, rsize - 1)

\* C8, amended: parse_range("A-", N) returns (A, N-1) for every A < N, and
\* fails with InvalidRange for every A >= N.
C8_OpenEnded ==
    \A a \in ClaimNums :
        (RangeCalled /\ rspec = ToDecimal(a) \o <<"-">>)
            => rres = IF a < rsize THEN RangeOk(a, rsize - 1)
                      ELSE RangeErr("InvalidRange")

C8_Witness ==
    /\ rspec = <<"2", "-">>
    /\ rsize = 5
    /\ rres = RangeOk(2, 4)

\* C9 as stated: both "" and "-" parse to the whole object (0, N-1).
C9_EmptyFormsAsStated ==
    (RangeCalled /\ rspec \in {<<>>, <<"-">>}) => rres = WholeObject

\* C9, amended: "-" parses to the whole object (0, N-1); the empty string
\* holds no separator and fails with InvalidRangeFormat.
C9_EmptyForms ==
    /\ (RangeCalled /\ rspec = <<"-">>) => rres = WholeObject
    /\ (RangeCalled /\ rspec = <<>>) => rres = RangeErr("InvalidRangeFormat")

C9_Witness ==
    /\ rspec = <<"-">>
    /\ rsize = 3
    /\ rres = RangeOk(0, 2)

\* The separators of a string, and the two tokens around a single one.
SepCount(s) == Cardinality({i \in 1..Len(s) : s[i] = "-"})
SepAt(s) == CHOOSE i \in 1..Len(s) : s[i] = "-"
TokenBefore(s) == SubSeq(s, 1, SepAt(s) - 1)
TokenAfter(s) == SubSeq(s, SepAt(s) + 1, Len(s))

\* A token that writes a non-negative integer: decimal digits, which may
\* follow a '+' sign.
WritesNat(tok) ==
    LET body == IF Len(tok) > 0 /\ tok[1] = "+" THEN Tail(tok) ELSE tok
    IN  Len(body) > 0 /\ \A i \in 1..Len(body) : IsDigit(body[i])

MalformedToken(tok) == Len(tok) > 0 /\ ~WritesNat(tok)

\* C10: a string without exactly one '-' fails with InvalidRangeFormat, and
\* a string with exactly one '-' and a non-empty token that writes no
\* non-negative integer fails with a parse error; no range is returned.
C10_Malformed ==
    RangeCalled =>
        /\ SepCount(rspec) # 1 => rres = RangeErr("InvalidRangeFormat")
        /\ (/\ SepCount(rspec) = 1
            /\ \/ MalformedToken(TokenBefore(rspec))
               \/ MalformedToken(TokenAfter(rspec)))
               => rres = RangeErr("ParseIntError")

C10_Witness ==
    /\ rspec = <<"1", "-", "x">>
    /\ rres = RangeErr("ParseIntError")

\* C11: validated-range invariant.  For every range string and every size
\* N >= 1, whenever parse_range returns Ok((start, end)) the pair satisfies
\* 0 <= start <= end < N, whatever the form of the string.
C11_ValidatedRange ==
    (RangeCalled /\ rres.tag = "Ok")
        => /\ 0 <= rres.start
           /\ rres.start <= rres.end
           /\ rres.end < rsize

\* An open-ended or two-sided string accepted with a start inside the
\* object and the end on its last byte.
C11_Witness ==
    /\ RangeCalled
    /\ rres.tag = "Ok"
    /\ rres.start > 0
    /\ rres.end = rsize - 1

====
